---- MODULE Spec2Model ----
(***************************************************************************)
(* Model of the query orchestration core of Dots: performQueryAtom and     *)
(* cancelSearchAtom (store/searchActions), SearchControllerImpl,           *)
(* AIService (executeWithCache, executeRequest, requestWithRetry,          *)
(* parseSegmentsFromResponse) and CacheService (the localStorage log).     *)
(*                                                                         *)
(* The JavaScript event loop is modelled as run-to-completion: the steps   *)
(* started by the user or by the network (performQueryAtom,                *)
(* cancelSearchAtom, fetchSettles) are tasks and are taken only when no    *)
(* promise reaction is runnable (TaskBoundary); the rejection of an        *)
(* aborted fetch and the continuation of an awaiting performQueryAtom are  *)
(* promise reactions.                                                      *)
(*                                                                         *)
(* Texts are tuples of one-character strings, so that toLowerCase and trim *)
(* are computed and not assumed. null / undefined is 0 (NULL) for ids and  *)
(* the empty string for the error message.                                 *)
(***************************************************************************)
EXTENDS Integers, Sequences, FiniteSets, TLC

\* ---------------------------------------------------------------- bounds
\* performQueryAtom invocations that miss the store (each one owns one
\* AbortController and issues at most one request)
MaxCalls == 3

\* ------------------------------------------------------ program constants
MAX_QUERY_HISTORY == 100
MAX_RETRY_ATTEMPT == 2

NULL == 0
NoError == ""
ERR_CANCELLED == "Search was cancelled"
ERR_RETRIES == "Failed to get segments: AI service did not provide valid JSON format after 3 attempts"

\* ------------------------------------------------------------ input sets
\* texts a user submits as root queries (SearchInterface trims them and
\* rejects the empty text)
RootQueries == { <<"a">>, <<"A">>, <<"b">>, <<"c">> }

\* list entries the AI boundary may return; an empty text is a missing or
\* empty field
ItemA == [type |-> "object", title |-> <<"a", " ">>, content |-> <<"x">>]
ItemNoContent == [type |-> "object", title |-> <<"b">>, content |-> <<>>]
Payloads == { <<>>, <<ItemNoContent, ItemA>> }

\* what one call of the AI boundary can answer: a parseable payload, text
\* that is not JSON, JSON without a list array, or a transport failure
Responses ==
    [kind : {"ok"}, list : Payloads]
        \cup [kind : {"malformed", "nolist", "transport"}, list : {<<>>}]

\* --------------------------------------------------------- text functions
toLowerChar(c) ==
    CASE c = "A" -> "a"
      [] c = "B" -> "b"
      [] c = "C" -> "c"
      [] OTHER -> c

toLowerCase(s) == [i \in 1..Len(s) |-> toLowerChar(s[i])]

\* String.prototype.trim; blanks and line breaks are the white space that
\* texts here contain
RECURSIVE trimStart(_)
trimStart(s) ==
    IF s # <<>> /\ Head(s) \in {" ", "\n"} THEN trimStart(Tail(s)) ELSE s

RECURSIVE trimEnd(_)
trimEnd(s) ==
    IF s # <<>> /\ s[Len(s)] \in {" ", "\n"}
    THEN trimEnd(SubSeq(s, 1, Len(s) - 1)) ELSE s

trim(s) == trimEnd(trimStart(s))

\* ------------------------------------------------------------ CacheService
NoRecord == [id |-> NULL, query |-> <<>>, segments |-> <<>>, timestamp |-> 0,
             parentId |-> NULL, sourceSegmentId |-> NULL]

saveQueryResultKeepsAll(h, id, timestamp, query, segs, parentId, sourceSegmentId) ==
    <<[id |-> id, query |-> query, segments |-> segs, timestamp |-> timestamp,
       parentId |-> parentId, sourceSegmentId |-> sourceSegmentId]>> \o h

\* id is the value of uuidv4() and timestamp the value of Date.now()
saveQueryResult(h, id, timestamp, query, segs, parentId, sourceSegmentId) ==
    LET item == [id |-> id, query |-> query, segments |-> segs,
                 timestamp |-> timestamp,
                 parentId |-> parentId, sourceSegmentId |-> sourceSegmentId]
        unshifted == <<item>> \o h
    IN  IF Len(unshifted) > MAX_QUERY_HISTORY
        THEN SubSeq(unshifted, 1, MAX_QUERY_HISTORY)
        ELSE unshifted

queryMatchesTextOnly(item, query, sourceSegmentId, parentId) ==
    trim(toLowerCase(item.query)) = trim(toLowerCase(query))

queryMatches(item, query, sourceSegmentId, parentId) ==
    LET queryMatch == trim(toLowerCase(item.query)) = trim(toLowerCase(query))
    IN  IF sourceSegmentId # NULL /\ parentId # NULL
        THEN /\ queryMatch
             /\ item.sourceSegmentId = sourceSegmentId
             /\ item.parentId = parentId
        ELSE /\ queryMatch
             /\ item.sourceSegmentId = NULL
             /\ item.parentId = NULL

findExistingQueryOldest(h, query, sourceSegmentId, parentId) ==
    LET hits == {i \in 1..Len(h) : queryMatches(h[i], query, sourceSegmentId, parentId)}
    IN  IF hits = {} THEN NoRecord
        ELSE h[CHOOSE i \in hits : \A j \in hits : i >= j]

findExistingQuery(h, query, sourceSegmentId, parentId) ==
    LET hits == {i \in 1..Len(h) : queryMatches(h[i], query, sourceSegmentId, parentId)}
    IN  IF hits = {} THEN NoRecord
        ELSE h[CHOOSE i \in hits : \A j \in hits : i <= j]

\* --------------------------------------------------------------- segments
NoSegment == [id |-> NULL, title |-> <<>>, content |-> <<>>, level |-> 0,
              parentId |-> NULL]

\* what a store, URL, context or parser operation returned: the operation,
\* the id it was given or handed out, the record it found, the text it
\* parsed or rendered, whether it threw, the arguments it was called with
\* and the segments it produced
NoReturn == [op |-> "none", id |-> NULL, item |-> NoRecord, text |-> <<>>,
             threw |-> FALSE, input |-> <<>>, segs |-> <<>>]

\* segmentUtils.createTextSegment; the uuid is the next unused number
createTextSegment(id, title, content, level, parentId) ==
    [id |-> id, title |-> title, content |-> content, level |-> level,
     parentId |-> parentId]

\* AIService.parseSegmentsFromResponse, applied to the list array of a
\* parsed payload none of whose entries is null: a string entry that
\* is not blank becomes a segment with the trimmed string as title and as
\* content, an object entry is accepted when its title and its content are
\* both truthy (non-empty) and is trimmed after that, and any other entry
\* is skipped
RECURSIVE parseSegmentsFromResponse(_, _, _, _)
parseSegmentsFromResponse(list, level, parentId, firstId) ==
    IF list = <<>> THEN <<>>
    ELSE LET item == Head(list)
         IN  IF item.type = "string" /\ Len(trim(item.text)) > 0
             THEN <<createTextSegment(firstId, trim(item.text), trim(item.text),
                                      level, parentId)>>
                  \o parseSegmentsFromResponse(Tail(list), level, parentId, firstId + 1)
             ELSE IF item.type = "object" /\ item.title # <<>> /\ item.content # <<>>
             THEN <<createTextSegment(firstId, trim(item.title), trim(item.content),
                                      level, parentId)>>
                  \o parseSegmentsFromResponse(Tail(list), level, parentId, firstId + 1)
             ELSE parseSegmentsFromResponse(Tail(list), level, parentId, firstId)

\* -------------------------------------------------------------- AIService
createSearchCacheKey(query) == trim(toLowerCase(query))

createExpansionCacheKey(segment, originalQuery) ==
    segment.title \o <<":">> \o segment.content \o <<":">> \o originalQuery

\* cacheParams of generateSegments / expandSegment
searchCacheParams(query) ==
    [query |-> query, parentId |-> NULL, sourceSegmentId |-> NULL]

expansionCacheParams(segment, originalQuery) ==
    [query |-> createExpansionCacheKey(segment, originalQuery),
     parentId |-> segment.parentId,
     sourceSegmentId |-> segment.id]

\* the conversation of performSearch / performExpansion, and the message
\* requestWithRetry appends before it sends the conversation again
initialMessages == <<"system", "user">>
correctiveMessage == "corrective"

retryAllowedOnceMore(attempt) == attempt < MAX_RETRY_ATTEMPT + 1

\* the catch of requestWithRetry for an error that is not a cancellation:
\* TRUE when the conversation is sent again
retryAllowed(attempt) == attempt < MAX_RETRY_ATTEMPT

NoRequest == [status |-> "none", key |-> <<>>, cacheParams |-> searchCacheParams(<<>>),
              level |-> 0, parentId |-> NULL, attempt |-> 0, messages |-> <<>>,
              cancelled |-> FALSE, result |-> <<>>, error |-> NoError]

\* executeRequest -> requestFn -> performSearch / performExpansion ->
\* requestWithRetry(messages, level, parentId, 0, abortController) ->
\* sendMessage: the first fetch is issued synchronously
newRequest(key, cacheParams, level, parentId) ==
    [status |-> "pending", key |-> key, cacheParams |-> cacheParams,
     level |-> level, parentId |-> parentId, attempt |-> 0,
     messages |-> initialMessages,
     cancelled |-> FALSE, result |-> <<>>, error |-> NoError]

\* requestWithRetry returns the parsed segments (its locals are gone)
requestReturned(req, segs) ==
    [req EXCEPT !.status = "ok", !.result = segs, !.attempt = 0, !.messages = <<>>]

\* requestWithRetry(retryMessages, level, parentId, attempt + 1, ...)
requestRetried(req) ==
    [req EXCEPT !.attempt = req.attempt + 1,
                !.messages = Append(req.messages, correctiveMessage)]

\* requestWithRetry throws after the last attempt
requestThrown(req) == [req EXCEPT !.status = "failed", !.error = ERR_RETRIES]

requestCancelledThrows(req) ==
    [req EXCEPT !.status = "failed", !.error = ERR_CANCELLED, !.cancelled = TRUE]

\* requestWithRetry catches 'Search was cancelled' and returns []
requestCancelled(req) ==
    [requestReturned(req, <<>>) EXCEPT !.cancelled = TRUE]

\* PreloadingService.MAX_CACHE_ITEMS and STATIC_DELAY_MS
MAX_CACHE_ITEMS == 10
STATIC_DELAY_MS == 2000

\* PreloadingService after construction. cache holds the ids of the
\* segments with a preload promise; fulfilled holds the PreloadedSegment
\* (without its segments) of every promise of the cache that is fulfilled,
\* and blocked the ids of those whose performPreload waits in
\* enforceCacheLimit. pending holds the requests its own AIService has in
\* flight, map is the pendingRequests of that AIService, and issued counts
\* the requests it has sent. timeouts are the pending timeouts of
\* resetStaticTimer, each with the time it has left and whether staticTimer
\* holds its id. abortedSignals are the AbortControllers it has aborted.
\* sinceChange is an observation: the time since the last scroll or change
\* of visibility, up to STATIC_DELAY_MS. resolving is empty between tasks.
NoPreloads ==
    [cache |-> {}, fulfilled |-> {}, blocked |-> {}, pending |-> {},
     map |-> {}, issued |-> 0, accessCounter |-> 0, visibleSegments |-> {},
     timeouts |-> {}, abortController |-> NULL, abortedSignals |-> {},
     sinceChange |-> STATIC_DELAY_MS, resolving |-> <<>>]

\* useUrlLoader once the effects of the mount have run at "/": no
\* navigation timeout is pending, lastProgrammaticUrl.current is null (the
\* empty text), and deps are the active record id, the length of the
\* segment list and the pathname its effects have run with last
NoUrlSync ==
    [navigationTimeout |-> [armed |-> FALSE, nonEmpty |-> FALSE,
                            currentQueryId |-> NULL, pathname |-> <<>>],
     lastProgrammaticUrl |-> <<>>,
     deps |-> [currentQueryId |-> NULL, length |-> 0, pathname |-> <<"/">>]]

\* isLoadingMoreAtom and hasMoreSegmentsAtom after construction; pending
\* holds the load-more requests in flight and issued counts them
NoLoadMore ==
    [isLoadingMore |-> FALSE, hasMoreSegments |-> TRUE, pending |-> {},
     issued |-> 0]

\* no call of getParentSegments yet: fn names the function, pc is "while"
\* during its loop and "returned" after it
NoWalk ==
    [fn |-> "", pc |-> "idle", currentParentId |-> NULL, levelsTraversed |-> 0,
     parents |-> <<>>, allSegments |-> <<>>]

\* ------------------------------------------------------------------ state
VARIABLES
    searchQuery,            \* store.searchQueryAtom
    segments,               \* store.segmentsAtom
    isSearching,            \* store.isSearchingAtom
    error,                  \* store.errorAtom
    searchControllerAtom,   \* store.searchControllerAtom (controller id or NULL)
    expandingSegmentId,     \* store.expandingSegmentIdAtom
    currentSearchId,        \* store.currentSearchIdAtom
    currentRequest,         \* SearchControllerImpl.currentRequest
    scIsSearching,          \* SearchControllerImpl.isSearching
    aborted,                \* AbortControllers whose signal is aborted
    history,                \* the localStorage log of CacheService
    uuidCount,              \* record ids handed out by uuidv4
    segCount,               \* segment ids handed out by uuid
    pendingRequests,        \* AIService.pendingRequests: cache key -> request
    requests,               \* requests issued by executeRequest, by creator
    calls,                  \* performQueryAtom invocations past the store check
    mq,                     \* promise reactions queued, oldest first
    stopped,                \* observation: requests aborted by cancelSearchAtom
    now,                    \* Date.now()
    location,               \* location.pathname of the browser
    isLoadingFromUrl,       \* useUrlLoader: isLoadingFromUrl.current
    storedShape,            \* what the text under QUERY_HISTORY_KEY parses to;
                            \* history is its value while it is a list
    returned,               \* observation: what the last store operation returned
    preloads,               \* PreloadingService: its cache and the pending
                            \* requests of its own AIService
    urlSync,                \* useUrlLoader: the pending navigation timeout,
                            \* lastProgrammaticUrl.current, and the
                            \* dependencies its effects ran with last
    loadMore,               \* store.isLoadingMoreAtom, hasMoreSegmentsAtom,
                            \* and the load-more requests in flight
    walk                    \* the locals of a call of getParentSegments

atoms == <<searchQuery, segments, isSearching, error, searchControllerAtom,
           expandingSegmentId, currentSearchId>>
controller == <<currentRequest, scIsSearching>>
environment == <<now, location, isLoadingFromUrl, storedShape, returned, preloads,
                 urlSync, loadMore, walk>>
vars == <<searchQuery, segments, isSearching, error, searchControllerAtom,
          expandingSegmentId, currentSearchId, currentRequest, scIsSearching,
          aborted, history, uuidCount, segCount,
          pendingRequests, requests, calls, mq, stopped,
          now, location, isLoadingFromUrl, storedShape, returned, preloads,
          urlSync, loadMore, walk>>

CallIds == 1..MaxCalls

\* joined, segsBefore and idBefore are observations: the request the caller
\* found pending, and the segment list and active record id at its start
NoCall == [pc |-> "none", query |-> <<>>, sourceSegment |-> NoSegment,
           parentId |-> NULL, key |-> <<>>, req |-> NULL, joined |-> NULL,
           result |-> <<>>, segsBefore |-> <<>>, idBefore |-> NULL]

\* a performQueryAtom invocation that has returned or thrown
finishedCall(call, pc) == [NoCall EXCEPT !.pc = pc, !.joined = call.joined]

Init ==
    /\ searchQuery = <<>>
    /\ segments = <<>>
    /\ isSearching = FALSE
    /\ error = NoError
    /\ searchControllerAtom = NULL
    /\ expandingSegmentId = NULL
    /\ currentSearchId = NULL
    /\ currentRequest = NULL
    /\ scIsSearching = FALSE
    /\ aborted = {}
    /\ history = <<>>
    /\ uuidCount = 0
    /\ segCount = 0
    /\ pendingRequests = {}
    /\ requests = [r \in CallIds |-> NoRequest]
    /\ calls = [p \in CallIds |-> NoCall]
    /\ mq = <<>>
    /\ stopped = {}
    /\ now = 0
    /\ location = <<"/">>
    /\ isLoadingFromUrl = FALSE
    /\ storedShape = "list"
    /\ returned = NoReturn
    /\ preloads = NoPreloads
    /\ urlSync = NoUrlSync
    /\ loadMore = NoLoadMore
    /\ walk = NoWalk

\* a fetch whose signal is aborted rejects at once: its rejection is a
\* runnable promise reaction
AbortPending(r) == requests[r].status = "pending" /\ r \in aborted

\* no promise reaction is runnable: the next step is a task
TaskBoundary == mq = <<>> /\ \A r \in CallIds : ~AbortPending(r)

usedCalls == {p \in CallIds : calls[p].pc # "none"}
nextCall == Cardinality(usedCalls) + 1

\* callers awaiting request r, in the order in which they started to wait
RECURSIVE waitersFrom(_, _)
waitersFrom(r, p) ==
    IF p > MaxCalls THEN <<>>
    ELSE (IF calls[p].pc = "await" /\ calls[p].req = r THEN <<p>> ELSE <<>>)
         \o waitersFrom(r, p + 1)

waiters(r) == waitersFrom(r, 1)

\* Map.delete / Map.set on pendingRequests, a set of <<cache key, request>>
\* pairs with at most one pair per key
mapDelete(m, k) == {e \in m : e[1] # k}
mapSet(m, k, v) == mapDelete(m, k) \cup {<<k, v>>}

pendingRequestIgnored(key) == NULL

\* this.pendingRequests.get(cacheKey): the request recorded for the key,
\* or NULL
pendingRequest(key) ==
    IF \E e \in pendingRequests : e[1] = key
    THEN (CHOOSE e \in pendingRequests : e[1] = key)[2]
    ELSE NULL

\* ------------------------------------------------- SearchControllerImpl
cancelSearchNoAbort == aborted

\* cancelSearch: the signals aborted once the recorded controller, if any,
\* is aborted
cancelSearchAborted ==
    IF currentRequest # NULL THEN aborted \cup {currentRequest} ELSE aborted

\* startSearch(query) returning controller c. Its searchHistory list is
\* written here and read nowhere, and is left out of the state.
startSearch(query, c) ==
    /\ aborted' = cancelSearchAborted
    /\ currentRequest' = c
    /\ scIsSearching' = TRUE

completeSearch ==
    /\ currentRequest' = NULL
    /\ scIsSearching' = FALSE

\* ------------------------------------------ AIService.executeWithCache
\* Entry of executeWithCache for caller p, up to its first await:
\* 1. a record in the store answers at once; 2. a pending request for the
\* key is awaited; 3. otherwise a request is created and recorded.
executeWithCache(p, key, cacheParams, level, parentId, call) ==
    LET existingResult == findExistingQuery(history, cacheParams.query,
                                            cacheParams.sourceSegmentId,
                                            cacheParams.parentId)
    IN  IF existingResult # NoRecord
        THEN /\ calls' = [calls EXCEPT ![p] =
                            [call EXCEPT !.pc = "ready",
                                         !.result = existingResult.segments]]
             /\ mq' = Append(mq, p)
             /\ UNCHANGED <<requests, pendingRequests>>
        ELSE IF pendingRequest(key) # NULL
        THEN /\ calls' = [calls EXCEPT ![p] =
                            [call EXCEPT !.pc = "await",
                                         !.req = pendingRequest(key),
                                         !.joined = pendingRequest(key)]]
             /\ UNCHANGED <<requests, pendingRequests, mq>>
        ELSE /\ calls' = [calls EXCEPT ![p] =
                            [call EXCEPT !.pc = "await", !.req = p]]
             /\ requests' = [requests EXCEPT ![p] =
                                newRequest(key, cacheParams, level, parentId)]
             /\ pendingRequests' = mapSet(pendingRequests, key, p)
             /\ UNCHANGED mq

\* ------------------------------------------------------ performQueryAtom
reuseExistingQueryStillLoading(existingQuery) ==
    /\ searchQuery' = existingQuery.query
    /\ segments' = existingQuery.segments
    /\ currentSearchId' = existingQuery.id
    /\ UNCHANGED <<isSearching, error, expandingSegmentId>>

\* lines 31-37: the store has the query, adopt its record
reuseExistingQuery(existingQuery) ==
    /\ searchQuery' = existingQuery.query
    /\ segments' = existingQuery.segments
    /\ currentSearchId' = existingQuery.id
    /\ isSearching' = FALSE
    /\ error' = NoError
    /\ expandingSegmentId' = NULL

\* The synchronous part of performQueryAtom({query, sourceSegment,
\* parentId}): the store check and, on a miss, everything up to the await
\* of aiService.expandSegment / generateSegments.
performQueryAtom(query, sourceSegment, parentId) ==
    /\ TaskBoundary
    /\ UNCHANGED environment
    /\ LET existingQuery == findExistingQuery(history, query, sourceSegment.id, parentId)
           p == nextCall
           isExpansion == sourceSegment # NoSegment
           call == [NoCall EXCEPT !.query = query,
                                  !.sourceSegment = sourceSegment,
                                  !.parentId = parentId,
                                  !.key = IF isExpansion
                                          THEN createExpansionCacheKey(sourceSegment, query)
                                          ELSE createSearchCacheKey(query),
                                  !.segsBefore = segments,
                                  !.idBefore = currentSearchId]
       IN  IF existingQuery # NoRecord
           THEN /\ reuseExistingQuery(existingQuery)
                /\ UNCHANGED <<searchControllerAtom, controller, aborted, history,
                               uuidCount, segCount, pendingRequests, requests,
                               calls, mq, stopped>>
           ELSE /\ p <= MaxCalls
                /\ searchQuery' = query
                /\ error' = NoError
                /\ startSearch(query, p)
                /\ expandingSegmentId' = IF isExpansion THEN sourceSegment.id
                                         ELSE expandingSegmentId
                /\ isSearching' = TRUE
                /\ searchControllerAtom' = p
                /\ segments' = IF isExpansion THEN segments ELSE <<>>
                /\ IF isExpansion
                   THEN executeWithCache(p, call.key,
                                         expansionCacheParams(sourceSegment, query),
                                         sourceSegment.level + 1, sourceSegment.id, call)
                   ELSE executeWithCache(p, call.key, searchCacheParams(query),
                                         0, NULL, call)
                /\ UNCHANGED <<currentSearchId, history, uuidCount, segCount, stopped>>

\* a root search typed into SearchInterface or picked in the history modal
RootSearch == \E q \in RootQueries : performQueryAtom(q, NoSegment, NULL)

\* AIExpandableSearch.handleSegmentExpand: a click on a displayed segment
SegmentExpand ==
    \E i \in 1..Len(segments) :
        performQueryAtom(segments[i].title, segments[i], currentSearchId)

\* ------------------------------------------------------ cancelSearchAtom
cancelSearchAtom ==
    /\ TaskBoundary
    /\ UNCHANGED environment
    /\ aborted' = cancelSearchAborted
    /\ currentRequest' = NULL
    /\ scIsSearching' = IF currentRequest # NULL THEN FALSE ELSE scIsSearching
    /\ isSearching' = FALSE
    /\ error' = NoError
    /\ searchControllerAtom' = NULL
    /\ expandingSegmentId' = NULL
    /\ stopped' = IF currentRequest # NULL /\ requests[currentRequest].status = "pending"
                  THEN stopped \cup {currentRequest} ELSE stopped
    /\ UNCHANGED <<searchQuery, segments, currentSearchId, history,
                   uuidCount, segCount, pendingRequests, requests, calls, mq>>

\* ------------------------------------ requestWithRetry / executeRequest
\* executeRequest after requestFn has settled as req: the segments are
\* saved when it returned, nothing is saved when it threw
executeRequestSaves(req) ==
    IF req.status = "ok"
    THEN /\ history' = saveQueryResult(history, uuidCount + 1, now,
                                       req.cacheParams.query, req.result,
                                       req.cacheParams.parentId,
                                       req.cacheParams.sourceSegmentId)
         /\ uuidCount' = uuidCount + 1
    ELSE UNCHANGED <<history, uuidCount>>

\* One call of the AI boundary for request r answers (fetch and
\* response.json() have resolved, or sendMessage has thrown 'Failed to
\* communicate with AI service'). A parseable payload ends requestWithRetry
\* and executeRequest saves the segments; anything else is caught by
\* requestWithRetry, which sends the conversation again with one corrective
\* message appended while attempt < 2 and throws after that.
fetchSettles(r, resp) ==
    /\ TaskBoundary
    /\ UNCHANGED environment
    /\ requests[r].status = "pending"
    /\ LET req == requests[r]
           segs == parseSegmentsFromResponse(resp.list, req.level, req.parentId,
                                             segCount + 1)
           settled == IF resp.kind = "ok" THEN requestReturned(req, segs)
                      ELSE IF retryAllowed(req.attempt) THEN requestRetried(req)
                      ELSE requestThrown(req)
       IN  /\ requests' = [requests EXCEPT ![r] = settled]
           /\ segCount' = IF resp.kind = "ok" THEN segCount + Len(segs) ELSE segCount
           /\ executeRequestSaves(settled)
           /\ mq' = IF settled.status = "pending" THEN mq ELSE mq \o waiters(r)
    /\ UNCHANGED <<atoms, controller, aborted, pendingRequests, calls, stopped>>

\* The fetch of request r rejects with AbortError because its signal is
\* aborted: sendMessage throws 'Search was cancelled', requestWithRetry
\* returns [] and executeRequest saves that empty result.
fetchAborted(r) ==
    /\ AbortPending(r)
    /\ UNCHANGED environment
    /\ requests' = [requests EXCEPT ![r] = requestCancelled(requests[r])]
    /\ executeRequestSaves(requestCancelled(requests[r]))
    /\ mq' = mq \o waiters(r)
    /\ UNCHANGED <<atoms, controller, aborted, segCount, pendingRequests, calls,
                   stopped>>

\* --------------------------------------- performQueryAtom after the await
queryFailedClearsView(p, message) ==
    /\ completeSearch
    /\ isSearching' = FALSE
    /\ error' = message
    /\ searchControllerAtom' = NULL
    /\ expandingSegmentId' = NULL
    /\ segments' = <<>>
    /\ currentSearchId' = NULL
    /\ UNCHANGED <<searchQuery, history, uuidCount>>

\* lines 104-116: the catch of performQueryAtom
queryFailed(p, message) ==
    /\ completeSearch
    /\ isSearching' = FALSE
    /\ error' = message
    /\ searchControllerAtom' = NULL
    /\ expandingSegmentId' = NULL
    /\ UNCHANGED <<searchQuery, segments, currentSearchId, history, uuidCount>>

\* lines 82-103: save, adopt the segments, clear the loading state
querySucceeded(p, newSegments) ==
    /\ history' = saveQueryResult(history, uuidCount + 1, now, calls[p].query,
                                  newSegments, calls[p].parentId,
                                  calls[p].sourceSegment.id)
    /\ uuidCount' = uuidCount + 1
    /\ segments' = newSegments
    /\ currentSearchId' = uuidCount + 1
    /\ isSearching' = FALSE
    /\ searchControllerAtom' = NULL
    /\ expandingSegmentId' = NULL
    /\ completeSearch
    /\ UNCHANGED <<searchQuery, error>>

\* The continuation of caller p: the rest of executeWithCache (the finally
\* of the creator, or the fallback of a caller whose shared request failed)
\* followed by the success path or the catch of performQueryAtom.
performQueryResume(p) ==
    /\ mq # <<>>
    /\ UNCHANGED environment
    /\ Head(mq) = p
    /\ mq' = Tail(mq)
    /\ LET call == calls[p]
           r == call.req
           fromStore == call.pc = "ready"
           ok == fromStore \/ requests[r].status = "ok"
           newSegments == IF fromStore THEN call.result ELSE requests[r].result
           isCreator == ~fromStore /\ r = p
       IN  IF ok
           THEN /\ pendingRequests' = IF isCreator
                                      THEN mapDelete(pendingRequests, call.key)
                                      ELSE pendingRequests
                /\ querySucceeded(p, newSegments)
                /\ calls' = [calls EXCEPT ![p] = finishedCall(call, "done")]
                /\ UNCHANGED <<aborted, segCount, requests, stopped>>
           ELSE IF isCreator
           THEN /\ pendingRequests' = mapDelete(pendingRequests, call.key)
                /\ queryFailed(p, requests[r].error)
                /\ calls' = [calls EXCEPT ![p] = finishedCall(call, "failed")]
                /\ UNCHANGED <<aborted, segCount, requests, stopped>>
           ELSE \* aiService.ts 143-154: the shared request failed, issue a new one
                /\ pendingRequests' = mapSet(pendingRequests, call.key, p)
                /\ requests' = [requests EXCEPT ![p] =
                                   newRequest(call.key, requests[r].cacheParams,
                                              requests[r].level, requests[r].parentId)]
                /\ calls' = [calls EXCEPT ![p] = [call EXCEPT !.req = p]]
                /\ UNCHANGED <<atoms, controller, aborted, history, uuidCount,
                               segCount, stopped>>

\* ---------------------------------------------------------- specification
Next ==
    \/ RootSearch
    \/ SegmentExpand
    \/ cancelSearchAtom
    \/ \E r \in CallIds, resp \in Responses : fetchSettles(r, resp)
    \/ \E r \in CallIds : fetchAborted(r)
    \/ \E p \in CallIds : performQueryResume(p)

Spec == Init /\ [][Next]_vars

TypeOK ==
    /\ isSearching \in BOOLEAN
    /\ error \in {NoError, ERR_RETRIES, ERR_CANCELLED}
    /\ currentRequest \in {NULL} \cup CallIds
    /\ searchControllerAtom = currentRequest
    /\ scIsSearching = (currentRequest # NULL)
    /\ aborted \subseteq CallIds
    /\ \A r \in CallIds : requests[r].status \in {"none", "pending", "ok", "failed"}
    /\ \A p \in CallIds : calls[p].pc \in {"none", "await", "ready", "done", "failed"}

\* ================================================================ claims
orchestratorState == <<segments, currentSearchId, isSearching, expandingSegmentId, error>>

\* caller p created its own request, which has settled, and p is about to
\* continue
ResumesOwnRequest(p) == calls[p].pc = "await" /\ calls[p].req = p

\* a later run intent for another query has issued a request that is
\* still pending
Superseded(p) ==
    \E q \in CallIds :
        /\ q > p
        /\ ResumesOwnRequest(q)
        /\ requests[q].status = "pending"
        /\ calls[q].key # calls[p].key

\* C1 (as claimed): once a run intent for another query has started request
\* R2 while R1 was pending, the resolution of R1 changes none of the segment
\* list, active record id, in-flight flag, expanding-segment id and error.
C1_StaleResolutionDiscarded ==
    [][\A p \in CallIds :
          (performQueryResume(p) /\ ResumesOwnRequest(p) /\ Superseded(p))
              => UNCHANGED orchestratorState]_vars

\* C2: an expansion intent that starts while a request for the same segment
\* and the same original query is pending issues no request of its own and
\* awaits the pending one, and when that request returns the intent
\* receives exactly the segment sequence the request returned (which is
\* what the first intent receives).
C2_ExpansionDeduplicated ==
    [][/\ \A i \in 1..Len(segments) :
            LET seg == segments[i]
            IN  \A r \in CallIds :
                  (/\ performQueryAtom(seg.title, seg, currentSearchId)
                   /\ findExistingQuery(history, seg.title, seg.id, currentSearchId) = NoRecord
                   /\ requests[r].status = "pending"
                   /\ requests[r].key = createExpansionCacheKey(seg, seg.title)
                   /\ requests[r].parentId = seg.id)
                      => /\ requests' = requests
                         /\ calls'[nextCall].req = r
       /\ \A p \in CallIds :
            (/\ performQueryResume(p)
             /\ calls[p].pc = "await"
             /\ calls[p].sourceSegment # NoSegment
             /\ requests[calls[p].req].status = "ok")
                => /\ segments' = requests[calls[p].req].result
                   /\ calls[p].req # p => requests[p].status = "none"]_vars

\* C2 witness: an expansion that joined the pending request of an earlier
\* expansion has returned without a request of its own
C2_Witness ==
    \E q \in CallIds :
        /\ calls[q].pc = "done"
        /\ calls[q].joined # NULL
        /\ requests[calls[q].joined].parentId # NULL
        /\ requests[calls[q].joined].status = "ok"
        /\ requests[q].status = "none"

\* C3 (as claimed): at most one request issued by the orchestrator is
\* pending with a signal that is not aborted.
C3_AtMostOneLiveRequest ==
    Cardinality({r \in CallIds : requests[r].status = "pending" /\ r \notin aborted}) <= 1

\* what a store hit must leave behind
CacheHitEffect(rec) ==
    /\ segments' = rec.segments
    /\ currentSearchId' = rec.id
    /\ isSearching' = FALSE
    /\ expandingSegmentId' = NULL
    /\ error' = NoError
    /\ UNCHANGED <<requests, pendingRequests, calls, aborted, history, mq>>

\* C4: when run(query, sourceSegment?, parentQueryId?) finds a store record
\* for its key, the segment list and active record id become that record's,
\* the in-flight flag is false, the expanding-segment id and the error are
\* empty, and no request is issued, awaited or aborted.
C4_CacheHit ==
    [][/\ \A q \in RootQueries :
            LET rec == findExistingQuery(history, q, NULL, NULL)
            IN  (performQueryAtom(q, NoSegment, NULL) /\ rec # NoRecord)
                    => CacheHitEffect(rec)
       /\ \A i \in 1..Len(segments) :
            LET rec == findExistingQuery(history, segments[i].title, segments[i].id,
                                         currentSearchId)
            IN  (performQueryAtom(segments[i].title, segments[i], currentSearchId)
                 /\ rec # NoRecord)
                    => CacheHitEffect(rec)]_vars

\* C4 witness: with nothing running, the view shows a stored record that
\* is not the one saved last, as only a store hit leaves it
C4_Witness ==
    /\ TaskBoundary
    /\ currentSearchId # NULL
    /\ currentSearchId < uuidCount
    /\ segments # <<>>
    /\ isSearching = FALSE
    /\ \E i \in 1..Len(history) :
           history[i].id = currentSearchId /\ history[i].segments = segments

\* C5 (as claimed): when the request of a run intent completes
\* successfully, the returned segments are saved as a record, become the
\* segment list, the record's id becomes the active id, and the in-flight
\* flag, expanding-segment id and error are cleared.
C5_SuccessClearsAll ==
    [][\A p \in CallIds :
          (/\ performQueryResume(p)
           /\ ResumesOwnRequest(p)
           /\ requests[p].status = "ok"
           /\ ~requests[p].cancelled)
              => /\ Len(history') > 0
                 /\ history'[1].segments = requests[p].result
                 /\ history'[1].id = currentSearchId'
                 /\ segments' = requests[p].result
                 /\ isSearching' = FALSE
                 /\ expandingSegmentId' = NULL
                 /\ error' = NoError]_vars

\* the request of root search p was pending when the user invoked cancel()
CancelledSearch(p) ==
    /\ ResumesOwnRequest(p)
    /\ calls[p].sourceSegment = NoSegment
    /\ p \in stopped
    /\ requests[p].cancelled

\* C6 (as claimed): after cancel() during a search, once the cancelled
\* request has resolved the in-flight flag is false, the error is empty and
\* the segment list is the one displayed before the search began.
C6_CancelRestoresView ==
    [][\A p \in CallIds :
          (performQueryResume(p) /\ CancelledSearch(p))
              => /\ isSearching' = FALSE
                 /\ error' = NoError
                 /\ segments' = calls[p].segsBefore]_vars

\* C6 (amended): after cancel() during a root search, once the cancelled
\* request has resolved the in-flight flag is false, the error is empty and
\* the segment list is empty.
C6_CancelLeavesEmptyView ==
    [][\A p \in CallIds :
          (performQueryResume(p) /\ CancelledSearch(p))
              => /\ isSearching' = FALSE
                 /\ error' = NoError
                 /\ segments' = <<>>]_vars

\* C6 witness: a root search stopped by cancel() has returned and
\* the orchestrator is idle with an empty view and no error
C6_Witness ==
    \E p \in CallIds :
        /\ p \in stopped
        /\ calls[p].pc = "done"
        /\ requests[p].cancelled
        /\ requests[p].parentId = NULL
        /\ mq = <<>>
        /\ isSearching = FALSE
        /\ error = NoError
        /\ segments = <<>>

\* C7: cancel() aborts the signal of the recorded in-flight request if
\* there is one; right after it the in-flight flag is false, the
\* expanding-segment id and the error are empty and no controller is
\* recorded; it changes nothing else, and with no request recorded it aborts
\* nothing.
C7_Cancel ==
    [][cancelSearchAtom
          => /\ currentRequest # NULL => currentRequest \in aborted'
             /\ currentRequest = NULL => aborted' = aborted
             /\ isSearching' = FALSE
             /\ expandingSegmentId' = NULL
             /\ error' = NoError
             /\ searchControllerAtom' = NULL
             /\ currentRequest' = NULL
             /\ UNCHANGED <<searchQuery, segments, currentSearchId, history,
                            requests, pendingRequests, calls>>]_vars

\* C7 witness: cancel() has aborted a pending request that was recorded as
\* in flight
C7_Witness ==
    \E r \in stopped :
        /\ AbortPending(r)
        /\ currentRequest = NULL
        /\ searchControllerAtom = NULL
        /\ isSearching = FALSE

\* C8: a request whose cancellation signal is raised resolves to the empty
\* segment sequence without another call of the AI boundary, and the
\* continuation of a caller that awaited it leaves the error as it was.
C8_CancellationIsNotAnError ==
    [][/\ \A r \in CallIds :
            fetchAborted(r)
                => /\ requests'[r].status = "ok"
                   /\ requests'[r].result = <<>>
                   /\ requests'[r].cancelled
       /\ \A r \in CallIds :
            (r \in aborted' /\ requests'[r].status \in {"ok", "failed"})
                => /\ requests'[r].status = "ok"
                   /\ requests'[r].result = <<>>
       /\ \A p \in CallIds :
            (/\ performQueryResume(p)
             /\ calls[p].pc = "await"
             /\ requests[calls[p].req].cancelled)
                => error' = error]_vars

\* C8 witness: a cancelled request has resolved, its caller has returned,
\* and there is no error
C8_Witness ==
    \E r \in CallIds :
        /\ r \in aborted
        /\ requests[r].cancelled
        /\ calls[r].pc = "done"
        /\ error = NoError

\* the request of expansion p has thrown
FailedExpansion(p) ==
    /\ ResumesOwnRequest(p)
    /\ calls[p].sourceSegment # NoSegment
    /\ requests[p].status = "failed"

\* a step that starts a root search that misses the store
FreshRootSearch ==
    \E q \in RootQueries :
        /\ performQueryAtom(q, NoSegment, NULL)
        /\ findExistingQuery(history, q, NULL, NULL) = NoRecord

C11_TransportFailureNotRetried ==
    [][\A r \in CallIds :
          (/\ fetchSettles(r, [kind |-> "transport", list |-> <<>>])
           /\ requests[r].attempt = 0)
              => /\ requests'[r].status = "failed"
                 /\ requests'[r].attempt = 0]_vars

\* ======================================== CacheService called on its own
MaxSaves == 2
MaxNow == 1
MaxDeletes == 2

getQueryByIdNewest(h, id) == IF h = <<>> THEN NoRecord ELSE h[1]

\* getQueryById: the first record with the id, or none
getQueryById(h, id) ==
    LET hits == {i \in 1..Len(h) : h[i].id = id}
    IN  IF hits = {} THEN NoRecord
        ELSE h[CHOOSE i \in hits : \A j \in hits : i <= j]

deleteHistoryItemKeepsOnly(h, id) == SelectSeq(h, LAMBDA item : item.id = id)

\* deleteHistoryItem: the log without the records with the id
deleteHistoryItem(h, id) == SelectSeq(h, LAMBDA item : item.id # id)

\* getQueryHistory after clearHistory has removed the storage key
clearHistory == <<>>

\* the log after n <= MAX_QUERY_HISTORY root searches of "b" that returned
\* no segment, saved at time 0 with the ids 1..n: the newest record first
filledLog(n) ==
    [i \in 1..n |-> [id |-> n + 1 - i, query |-> <<"b">>, segments |-> <<>>,
                     timestamp |-> 0, parentId |-> NULL,
                     sourceSegmentId |-> NULL]]

\* one record short of the maximum
InitialSaves == MAX_QUERY_HISTORY - 1

\* arguments of the store operations
SavedQueries == { <<"a">>, <<" ", "A">> }
FoundQueries == SavedQueries \cup { <<"b">> }
SavedSegments == { <<createTextSegment(1, <<"t">>, <<"x">>, 0, NULL)>> }
SavedSourceIds == {NULL, 1}
SavedParentIds == {NULL, 1}
FoundSourceIds == {NULL, 1, 2}
FoundParentIds == {NULL, 1, 2}

\* ids a caller may hold: of the newest and the oldest record, the last one
\* handed out, and one never handed out
knownIds ==
    (IF history = <<>> THEN {} ELSE {history[1].id, history[Len(history)].id})
        \cup {uuidCount, uuidCount + 1}

\* the store after InitialSaves saves, everything else as constructed
FullStoreInit ==
    /\ searchQuery = <<>>
    /\ segments = <<>>
    /\ isSearching = FALSE
    /\ error = NoError
    /\ searchControllerAtom = NULL
    /\ expandingSegmentId = NULL
    /\ currentSearchId = NULL
    /\ currentRequest = NULL
    /\ scIsSearching = FALSE
    /\ aborted = {}
    /\ history = filledLog(InitialSaves)
    /\ uuidCount = InitialSaves
    /\ segCount = 0
    /\ pendingRequests = {}
    /\ requests = [r \in CallIds |-> NoRequest]
    /\ calls = [p \in CallIds |-> NoCall]
    /\ mq = <<>>
    /\ stopped = {}
    /\ now = 0
    /\ location = <<"/">>
    /\ isLoadingFromUrl = FALSE
    /\ storedShape = "list"
    /\ returned = NoReturn
    /\ preloads = NoPreloads
    /\ urlSync = NoUrlSync
    /\ loadMore = NoLoadMore
    /\ walk = NoWalk

\* what the store operations leave alone
outsideStore == <<atoms, controller, aborted, segCount, pendingRequests,
                  requests, calls, mq, stopped, location, isLoadingFromUrl,
                  preloads, urlSync, loadMore, walk>>

\* getQueryHistory: the stored list; [] when nothing is stored or
\* JSON.parse throws. When the stored text parses to something that is not
\* a list, that value is returned as it is, and the array method the caller
\* applies to it (find, unshift, filter) throws a TypeError.
getQueryHistory == IF storedShape = "list" THEN history ELSE <<>>
arrayMethodThrows == storedShape = "notalist"

Save(query, segs, parentId, sourceSegmentId) ==
    /\ uuidCount' = uuidCount + 1
    /\ IF arrayMethodThrows
       THEN /\ returned' = [NoReturn EXCEPT !.op = "save", !.threw = TRUE]
            /\ UNCHANGED <<history, storedShape>>
       ELSE /\ history' = saveQueryResult(getQueryHistory, uuidCount + 1, now,
                                          query, segs, parentId, sourceSegmentId)
            /\ storedShape' = "list"
            /\ returned' = [NoReturn EXCEPT !.op = "save", !.id = uuidCount + 1]
    /\ UNCHANGED <<now, outsideStore>>

GetQueryById(id) ==
    /\ returned' = IF arrayMethodThrows
                   THEN [NoReturn EXCEPT !.op = "getQueryById", !.id = id,
                                         !.threw = TRUE]
                   ELSE [NoReturn EXCEPT !.op = "getQueryById", !.id = id,
                                         !.item = getQueryById(getQueryHistory, id)]
    /\ UNCHANGED <<history, storedShape, uuidCount, now, outsideStore>>

FindExistingQuery(query, sourceSegmentId, parentId) ==
    /\ returned' = IF arrayMethodThrows
                   THEN [NoReturn EXCEPT !.op = "findExistingQuery",
                                         !.threw = TRUE]
                   ELSE [NoReturn EXCEPT !.op = "findExistingQuery",
                                         !.item = findExistingQuery(getQueryHistory,
                                                      query, sourceSegmentId,
                                                      parentId)]
    /\ UNCHANGED <<history, storedShape, uuidCount, now, outsideStore>>

DeleteHistoryItem(id) ==
    /\ IF arrayMethodThrows
       THEN /\ returned' = [NoReturn EXCEPT !.op = "deleteHistoryItem",
                                            !.id = id, !.threw = TRUE]
            /\ UNCHANGED <<history, storedShape>>
       ELSE /\ history' = deleteHistoryItem(getQueryHistory, id)
            /\ storedShape' = "list"
            /\ returned' = [NoReturn EXCEPT !.op = "deleteHistoryItem", !.id = id]
    /\ UNCHANGED <<uuidCount, now, outsideStore>>

\* clearHistory removes the storage key without reading it
ClearHistory ==
    /\ history' = clearHistory
    /\ storedShape' = "list"
    /\ returned' = [NoReturn EXCEPT !.op = "clearHistory"]
    /\ UNCHANGED <<uuidCount, now, outsideStore>>

\* the clock advances between two operations
Tick ==
    /\ now < MaxNow
    /\ now' = now + 1
    /\ UNCHANGED <<history, storedShape, uuidCount, returned, outsideStore>>

SaveAny ==
    \E query \in SavedQueries, segs \in SavedSegments,
       parentId \in SavedParentIds, sourceSegmentId \in SavedSourceIds :
           Save(query, segs, parentId, sourceSegmentId)

\* the store operations on a log that starts empty
StoreNext ==
    \/ uuidCount < MaxSaves /\ SaveAny
    \/ \E id \in knownIds : GetQueryById(id)
    \/ \E query \in FoundQueries, sourceSegmentId \in FoundSourceIds,
          parentId \in FoundParentIds :
              FindExistingQuery(query, sourceSegmentId, parentId)
    \/ \E id \in knownIds : DeleteHistoryItem(id)
    \/ ClearHistory
    \/ Tick

StoreSpec == Init /\ [][StoreNext]_vars

\* the writing operations on a log that starts one record short of the
\* maximum and is not emptied record by record
FullStoreNext ==
    \/ uuidCount < InitialSaves + MaxSaves /\ SaveAny
    \/ /\ Len(history) > InitialSaves - MaxDeletes
       /\ \E id \in knownIds : DeleteHistoryItem(id)
    \/ ClearHistory
    \/ Tick

FullStoreSpec == FullStoreInit /\ [][FullStoreNext]_vars

\* the log is ordered newest first: no record was saved or stamped later
\* than the record before it
NewestFirst(h) ==
    \A i \in 1..(Len(h) - 1) :
        /\ h[i].id > h[i + 1].id
        /\ h[i].timestamp >= h[i + 1].timestamp

\* C12: after any sequence of save, deleteById and clearAll the log holds at
\* most 100 records, ordered newest first; a save into a log of 100 records
\* puts the new record at the head, drops exactly the oldest record and
\* keeps the other 99 in their order.
C12_StoreBoundFifo ==
    [][/\ Len(history') <= MAX_QUERY_HISTORY
       /\ NewestFirst(history')
       /\ (SaveAny /\ Len(history) = MAX_QUERY_HISTORY)
              => /\ Len(history') = MAX_QUERY_HISTORY
                 /\ history'[1].id = uuidCount + 1
                 /\ \A i \in 1..(MAX_QUERY_HISTORY - 1) :
                        history'[i + 1] = history[i]]_vars

\* C12 witness: a save into a full log has dropped the oldest record
C12_Witness ==
    /\ returned.op = "save"
    /\ Len(history) = MAX_QUERY_HISTORY
    /\ history[1].id = InitialSaves + 2
    /\ history[MAX_QUERY_HISTORY].id = 2

\* C13: right after save(query, segments, parentId, sourceSegmentId) has
\* returned an id, getById(id) finds a record with exactly that id and the
\* query, segments, parentId and sourceSegmentId passed to the save; and a
\* record that getById(id) returns always has the id asked for.
C13_SaveGetRoundTrip ==
    [][/\ \A query \in SavedQueries, segs \in SavedSegments,
             parentId \in SavedParentIds, sourceSegmentId \in SavedSourceIds :
            Save(query, segs, parentId, sourceSegmentId)
                => LET item == getQueryById(history', returned'.id)
                   IN  /\ returned'.id # NULL
                       /\ item.id = returned'.id
                       /\ item.query = query
                       /\ item.segments = segs
                       /\ item.parentId = parentId
                       /\ item.sourceSegmentId = sourceSegmentId
       /\ \A id \in knownIds :
            (GetQueryById(id) /\ returned'.item # NoRecord)
                => returned'.item.id = id]_vars

\* C13 witness: getById has returned the older of two saved records
C13_Witness ==
    /\ returned.op = "getQueryById"
    /\ Len(history) = 2
    /\ returned.item = history[2]
    /\ returned.id = history[2].id
    /\ returned.item.query = <<" ", "A">>
    /\ returned.item.sourceSegmentId # NULL

\* ============================================== useUrlLoader and the URL
UUID_LENGTH == 36

hexDigits == <<"0", "1", "2", "3", "4", "5", "6", "7",
               "8", "9", "a", "b", "c", "d", "e", "f">>

\* the text of the n-th id handed out by uuidv4(): 8-4-4-4-12 lowercase hex
\* digits, version digit 4, variant digit 8
uuidv4(n) ==
    [i \in 1..UUID_LENGTH |->
        IF i \in {9, 14, 19, 24} THEN "-"
        ELSE IF i = 15 THEN "4"
        ELSE IF i = 20 THEN "8"
        ELSE IF i = UUID_LENGTH - 1 THEN hexDigits[((n \div 16) % 16) + 1]
        ELSE IF i = UUID_LENGTH THEN hexDigits[(n % 16) + 1]
        ELSE "0"]

\* the number of the id whose text is t, or NULL when no id handed out so
\* far has that text
uuidNumber(t) ==
    IF \E n \in 1..uuidCount : uuidv4(n) = t
    THEN CHOOSE n \in 1..uuidCount : uuidv4(n) = t
    ELSE NULL

\* parseUUIDUrl returning {}: no queryId
NoQueryId == <<>>

buildNavigationUrlNoPrefix(queryId) ==
    IF queryId # NoQueryId THEN <<"/">> \o queryId ELSE <<"/">>

\* buildNavigationUrl('/', queryId): the pathname `/q/${queryId}`, or '/'
buildNavigationUrl(queryId) ==
    IF queryId # NoQueryId THEN <<"/", "q", "/">> \o queryId ELSE <<"/">>

\* s from position i on consists of exactly n characters of [a-f0-9-]
RECURSIVE matchIdChars(_, _, _)
matchIdChars(s, i, n) ==
    IF n = 0 THEN i = Len(s) + 1
    ELSE /\ i <= Len(s)
         /\ \/ s[i] = "-"
            \/ \E k \in 1..Len(hexDigits) : hexDigits[k] = s[i]
         /\ matchIdChars(s, i + 1, n - 1)

parseUUIDUrlAnyLength(pathname) ==
    IF /\ Len(pathname) > 3
       /\ SubSeq(pathname, 1, 3) = <<"/", "q", "/">>
       /\ matchIdChars(pathname, 4, Len(pathname) - 3)
    THEN SubSeq(pathname, 4, Len(pathname))
    ELSE NoQueryId

\* parseUUIDUrl: pathname.match(/^\/q\/([a-f0-9-]{36})$/)
parseUUIDUrl(pathname) ==
    IF /\ Len(pathname) >= 3
       /\ SubSeq(pathname, 1, 3) = <<"/", "q", "/">>
       /\ matchIdChars(pathname, 4, UUID_LENGTH)
    THEN SubSeq(pathname, 4, Len(pathname))
    ELSE NoQueryId

\* pathnames the browser may be sent to: well-formed ones, and others
sampleId == uuidv4(1)
hyphens == [i \in 1..UUID_LENGTH |-> "-"]
OtherPaths ==
    { <<"/">>,
      <<"/", "q", "/">>,
      <<"/", "q", "/">> \o SubSeq(sampleId, 1, UUID_LENGTH - 1),
      <<"/", "q", "/">> \o sampleId \o <<"0">>,
      <<"/", "q", "/">> \o [sampleId EXCEPT ![1] = "A"],
      <<"/", "q", "/">> \o [sampleId EXCEPT ![UUID_LENGTH] = "g"],
      <<"/", "q", "/">> \o sampleId \o <<"/">>,
      <<"/", "q", "/">> \o sampleId \o <<"/", "x">>,
      <<"/", "x", "/">> \o sampleId,
      <<"q", "/">> \o sampleId,
      <<"/", "q", "/">> \o hyphens }
BrowserPaths ==
    OtherPaths \cup {buildNavigationUrl(uuidv4(n)) : n \in 1..(uuidCount + 1)}

\* loadFromUrl with location.pathname = pathname
loadFromUrl(pathname) ==
    /\ isLoadingFromUrl' = TRUE
    /\ LET queryId == parseUUIDUrl(pathname)
           throws == queryId # NoQueryId /\ arrayMethodThrows
           queryResult == IF queryId # NoQueryId /\ ~throws
                          THEN getQueryById(getQueryHistory, uuidNumber(queryId))
                          ELSE NoRecord
       IN  /\ IF queryResult # NoRecord
              THEN /\ searchQuery' = queryResult.query
                   /\ segments' = queryResult.segments
                   /\ currentSearchId' = queryResult.id
              ELSE UNCHANGED <<searchQuery, segments, currentSearchId>>
           /\ returned' = [NoReturn EXCEPT !.op = "loadFromUrl",
                                            !.id = uuidNumber(queryId),
                                            !.item = queryResult,
                                            !.text = queryId,
                                            !.threw = throws]
    /\ UNCHANGED <<isSearching, error, searchControllerAtom, expandingSegmentId,
                   controller, aborted, history, storedShape, uuidCount,
                   segCount, pendingRequests, requests, calls, mq, stopped, now,
                   preloads, loadMore, walk>>

\* loadFromUrl after the browser has gone to pathname (back/forward, a deep
\* link, a reload)
LoadFromUrl(pathname) ==
    /\ location' = pathname
    /\ loadFromUrl(pathname)
    /\ UNCHANGED urlSync

\* the timer started by loadFromUrl fires
LoadingFlagReset ==
    /\ isLoadingFromUrl
    /\ isLoadingFromUrl' = FALSE
    /\ UNCHANGED <<atoms, controller, aborted, history, storedShape, uuidCount,
                   segCount, pendingRequests, requests, calls, mq, stopped,
                   now, location, returned, preloads, urlSync, loadMore, walk>>

\* a root search has been saved
SaveRoot ==
    \E query \in SavedQueries, segs \in SavedSegments :
        Save(query, segs, NULL, NULL)

UrlNext ==
    \/ uuidCount < MaxSaves /\ SaveRoot
    \/ \E pathname \in BrowserPaths : LoadFromUrl(pathname)
    \/ LoadingFlagReset

UrlSpec == Init /\ [][UrlNext]_vars

\* C14: for every id the store has handed out, encode(id) is the path "/q/"
\* followed by the id and decode(encode(id)) is the id; loading that path
\* asks the store for exactly that id.
C14_UrlRoundTrip ==
    [][/\ \A n \in 1..uuidCount' :
            /\ buildNavigationUrl(uuidv4(n)) = <<"/", "q", "/">> \o uuidv4(n)
            /\ parseUUIDUrl(buildNavigationUrl(uuidv4(n))) = uuidv4(n)
       /\ \A n \in 1..uuidCount :
            LoadFromUrl(buildNavigationUrl(uuidv4(n)))
                => /\ returned'.text = uuidv4(n)
                   /\ returned'.id = n]_vars

\* C14 witness: the path of a saved record has been loaded and decoded to
\* the record's id
C14_Witness ==
    /\ returned.op = "loadFromUrl"
    /\ returned.id = 2
    /\ returned.item.id = 2
    /\ returned.text = uuidv4(2)
    /\ location = <<"/", "q", "/">> \o uuidv4(2)
    /\ currentSearchId = 2

\* the characters of [a-f0-9-]
IdChars == {"-"} \cup {hexDigits[k] : k \in 1..Len(hexDigits)}

\* "/q/" followed by exactly 36 lowercase hex digits or hyphens
CanonicalPath(pathname) ==
    /\ Len(pathname) = 3 + UUID_LENGTH
    /\ pathname[1] = "/"
    /\ pathname[2] = "q"
    /\ pathname[3] = "/"
    /\ \A i \in 4..Len(pathname) : pathname[i] \in IdChars

\* C15: decode yields an id exactly for the paths that are "/q/" followed by
\* 36 lowercase hex digits or hyphens, and the id is that 36-character
\* text; for every other path it yields none, no record is looked up, and
\* the error is left as it was.
C15_DecodeCanonicalOnly ==
    [][\A pathname \in BrowserPaths :
          LoadFromUrl(pathname)
              => /\ CanonicalPath(pathname)
                    => returned'.text = SubSeq(pathname, 4, 3 + UUID_LENGTH)
                 /\ ~CanonicalPath(pathname)
                    => /\ returned'.text = NoQueryId
                       /\ returned'.item = NoRecord
                 /\ error' = error]_vars

\* C15 witness: with a record in the store, a path whose identifier is one
\* character too long has been loaded and decoded to none
C15_Witness ==
    /\ returned.op = "loadFromUrl"
    /\ uuidCount >= 1
    /\ location = <<"/", "q", "/">> \o sampleId \o <<"0">>
    /\ returned.text = NoQueryId

\* the record has exactly one of sourceSegmentId and parentId
HalfKeyed(item) == (item.sourceSegmentId = NULL) # (item.parentId = NULL)

\* C16: a record returned by findExisting(query, sourceSegmentId, parentId)
\* has a query text equal to the given one after trimming and lowering
\* case; with both sourceSegmentId and parentId supplied its two fields
\* equal them, with neither supplied it has neither; and it never has
\* exactly one of the two fields, whatever the arguments.
C16_FindExistingKey ==
    [][\A query \in FoundQueries, sourceSegmentId \in FoundSourceIds,
          parentId \in FoundParentIds :
          (/\ FindExistingQuery(query, sourceSegmentId, parentId)
           /\ returned'.item # NoRecord)
              => LET item == returned'.item
                 IN  /\ trim(toLowerCase(item.query)) = trim(toLowerCase(query))
                     /\ (sourceSegmentId # NULL /\ parentId # NULL)
                            => /\ item.sourceSegmentId = sourceSegmentId
                               /\ item.parentId = parentId
                     /\ (sourceSegmentId = NULL /\ parentId = NULL)
                            => /\ item.sourceSegmentId = NULL
                               /\ item.parentId = NULL
                     /\ ~HalfKeyed(item)]_vars

\* C16 witness: with a newer record of the same text that has only one of
\* the two fields in the log, findExisting has returned the older record
\* that has both, whose text differs in case and blanks from another's
C16_Witness ==
    /\ returned.op = "findExistingQuery"
    /\ Len(history) = 2
    /\ HalfKeyed(history[1])
    /\ returned.item = history[2]
    /\ history[2].query = <<" ", "A">>
    /\ history[2].sourceSegmentId = 1
    /\ history[2].parentId = 1

\* C17: findExisting returns a record exactly when some record matches its
\* key, and then one that matches and was saved no earlier than any other
\* matching record; it leaves the store as it was, so that the same call
\* made again at once returns the same record.
C17_FindExistingNewestIdempotent ==
    [][\A query \in FoundQueries, sourceSegmentId \in FoundSourceIds,
          parentId \in FoundParentIds :
          FindExistingQuery(query, sourceSegmentId, parentId)
              => LET item == returned'.item
                     hits == {i \in 1..Len(history) :
                                 queryMatches(history[i], query,
                                              sourceSegmentId, parentId)}
                 IN  /\ (item = NoRecord) = (hits = {})
                     /\ \A i \in hits :
                            /\ \E j \in hits : history[j] = item
                            /\ item.id >= history[i].id
                            /\ item.timestamp >= history[i].timestamp
                     /\ history' = history
                     /\ uuidCount' = uuidCount
                     /\ findExistingQuery(history', query, sourceSegmentId,
                                          parentId) = item]_vars

\* C17 witness: of two records matching one key, saved with texts that
\* differ in case and blanks, findExisting has returned the newer
C17_Witness ==
    /\ returned.op = "findExistingQuery"
    /\ Len(history) = 2
    /\ returned.item = history[1]
    /\ history[1].query # history[2].query
    /\ queryMatches(history[2], history[1].query, history[1].sourceSegmentId,
                    history[1].parentId)
    /\ history[1].parentId # NULL

\* C18: a save into a log that is not full leaves every earlier record
\* retrievable by its id with all its fields (query, segments, timestamp,
\* parentId, sourceSegmentId) unchanged, also when the new record has the
\* same de-dup key;
\* deleteById leaves every record with another id unchanged; a read leaves
\* the log unchanged; and no operation changes a field of a record that
\* stays in the log.
C18_RecordsNeverMutated ==
    [][/\ \A i \in 1..Len(history) :
            (\E j \in 1..Len(history') : history'[j].id = history[i].id)
                => getQueryById(history', history[i].id) = history[i]
       /\ (SaveAny /\ Len(history) < MAX_QUERY_HISTORY)
            => \A i \in 1..Len(history) :
                   getQueryById(history', history[i].id) = history[i]
       /\ \A id \in knownIds :
            DeleteHistoryItem(id)
                => \A i \in 1..Len(history) :
                       history[i].id # id
                           => getQueryById(history', history[i].id) = history[i]
       /\ returned'.op \in {"getQueryById", "findExistingQuery"}
            => history' = history]_vars

\* C18 witness: a second save with the de-dup key of an earlier record, at a
\* later time and with a text differing in case, has left the earlier
\* record in the log
C18_Witness ==
    /\ returned.op = "save"
    /\ Len(history) = 2
    /\ queryMatches(history[2], history[1].query, history[1].sourceSegmentId,
                    history[1].parentId)
    /\ history[1].query # history[2].query
    /\ history[2].timestamp < history[1].timestamp
    /\ getQueryById(history, history[2].id) = history[2]

\* records of log h matching the de-dup key
matchingRecords(h, query, sourceSegmentId, parentId) ==
    {i \in 1..Len(h) : queryMatches(h[i], query, sourceSegmentId, parentId)}

\* C19 (as claimed): when a run intent that missed the store and issued a
\* request resumes from that request's success, the store holds exactly
\* one record matching the intent's de-dup key.
C19_NoDuplicateRecords ==
    [][\A p \in CallIds :
          (/\ performQueryResume(p)
           /\ ResumesOwnRequest(p)
           /\ requests[p].status = "ok"
           /\ ~requests[p].cancelled)
              => Cardinality(matchingRecords(history', calls[p].query,
                                             calls[p].sourceSegment.id,
                                             calls[p].parentId)) = 1]_vars

\* C20 (as claimed): a request that is cancelled or that fails adds no
\* record to the store, neither when it settles nor when the intent
\* awaiting it resumes.
C20_RecordOnlyOnSuccess ==
    [][/\ \A r \in CallIds : fetchAborted(r) => history' = history
       /\ \A p \in CallIds :
            (/\ performQueryResume(p)
             /\ calls[p].pc = "await"
             /\ \/ requests[calls[p].req].cancelled
                \/ requests[calls[p].req].status = "failed")
                => history' = history]_vars

\* C21 (as claimed): every record in the store has either both parentId
\* and sourceSegmentId or neither of them.
C21_RecordShape ==
    \A i \in 1..Len(history) : ~HalfKeyed(history[i])

\* ============================================ a corrupted storage entry
CorruptShapes == {"unparseable", "notalist"}

\* something outside CacheService overwrites the text under
\* QUERY_HISTORY_KEY: with text JSON.parse rejects, or with JSON that is
\* not a list
Corrupt(shape) ==
    /\ storedShape' = shape
    /\ history' = <<>>
    /\ returned' = [NoReturn EXCEPT !.op = "corrupt"]
    /\ UNCHANGED <<uuidCount, now, outsideStore>>

CorruptStoreNext ==
    \/ uuidCount < MaxSaves /\ SaveRoot
    \/ \E id \in knownIds : GetQueryById(id)
    \/ \E query \in FoundQueries :
           FindExistingQuery(query, NULL, NULL)
    \/ \E id \in knownIds : DeleteHistoryItem(id)
    \/ ClearHistory
    \/ \E shape \in CorruptShapes : Corrupt(shape)

CorruptStoreSpec == Init /\ [][CorruptStoreNext]_vars

\* C22 (as claimed): with a corrupted stored text, unparseable or
\* parseable but not a list, getById, findExisting, save and deleteById do
\* not throw, and the reads find no record.
C22_CorruptionAbsorbed ==
    [][(/\ storedShape \in CorruptShapes
        /\ returned'.op \in {"getQueryById", "findExistingQuery", "save",
                            "deleteHistoryItem"})
           => /\ ~returned'.threw
              /\ returned'.item = NoRecord]_vars

\* ------------------------------------------------------- context builder
\* contextBuilder.ts
CONTEXT_LEVEL_LIMIT == 4

\* DEFAULT_CONTEXT_CONFIG.maxContextLength of the ContextBuilder class
maxContextLength == 2000

\* the fixed texts of the templates
originalSearchLabel ==
    <<"O", "r", "i", "g", "i", "n", "a", "l", " ", "s", "e", "a", "r", "c",
      "h", ":", " ", "\"">>
contextPathLine ==
    <<"C", "o", "n", "t", "e", "x", "t", " ", "p", "a", "t", "h", ":", "\n">>
listMarker == <<"-", " ">>
truncatedMarker ==
    <<".", ".", ".", " ", "[", "t", "r", "u", "n", "c", "a", "t", "e", "d",
      "]">>
contextTruncatedMarker ==
    <<"\n", ".", ".", ".", " ", "[", "c", "o", "n", "t", "e", "x", "t", " ",
      "t", "r", "u", "n", "c", "a", "t", "e", "d", " ", "f", "o", "r",
      " ", "l", "e", "n", "g", "t", "h", "]">>
contextLabel ==
    <<"C", "O", "N", "T", "E", "X", "T", ":", " ">>
expandOnLabel ==
    <<"E", "x", "p", "a", "n", "d", " ", "o", "n", ":", " ", "'">>

\* allSegments.find(s => s.id === id)
findSegment(allSegments, id) ==
    LET hits == {i \in 1..Len(allSegments) : allSegments[i].id = id}
    IN  IF hits = {} THEN NoSegment
        ELSE allSegments[CHOOSE i \in hits : \A j \in hits : i <= j]

\* the while loop of getParentSegments (contextBuilder.ts): limit is the
\* number of levels the loop may traverse
RECURSIVE walkParents(_, _, _, _)
walkParents(currentParentId, levelsTraversed, allSegments, parents) ==
    IF currentParentId # NULL /\ levelsTraversed < CONTEXT_LEVEL_LIMIT
    THEN LET parent == findSegment(allSegments, currentParentId)
         IN  IF parent = NoSegment THEN parents
             ELSE walkParents(parent.parentId, levelsTraversed + 1, allSegments,
                              <<parent>> \o parents)
    ELSE parents

getParentSegmentsFromSegment(segment, allSegments) ==
    walkParents(segment.id, 0, allSegments, <<>>)

getParentSegments(segment, allSegments) ==
    walkParents(segment.parentId, 0, allSegments, <<>>)

\* '  '.repeat(index)
indent(index) == [i \in 1..(2 * index) |-> " "]

\* the forEach of buildContextualInformation: one line per parent, titles
\* only; index counts from 0
RECURSIVE parentLines(_, _)
parentLines(parentSegments, index) ==
    IF parentSegments = <<>> THEN <<>>
    ELSE indent(index) \o listMarker \o Head(parentSegments).title \o <<"\n">>
         \o parentLines(Tail(parentSegments), index + 1)

buildContextualInformation(level, parentSegments, originalQuery) ==
    IF level = 0
    THEN originalSearchLabel \o originalQuery \o <<"\"">>
    ELSE trim(originalSearchLabel \o originalQuery \o <<"\"", "\n">>
              \o (IF Len(parentSegments) > 0
                  THEN contextPathLine \o parentLines(parentSegments, 0)
                  ELSE <<>>))

\* createContextualPrompt (contextBuilder.ts): the prompt is the base
\* instruction about the segment followed by the context; the fixed
\* instructions after it and the format example are left out
createContextualPrompt(segment, allSegments, originalQuery) ==
    LET parentSegments == getParentSegments(segment, allSegments)
        contextualInformation ==
            buildContextualInformation(segment.level, parentSegments, originalQuery)
    IN  [prompt |-> expandOnLabel \o segment.title \o <<"'", " ", "-", " ", "'">>
                    \o segment.content \o <<"'", ".", "\n">>
                    \o contextLabel \o contextualInformation,
         contextualInformation |-> contextualInformation,
         parentSegments |-> parentSegments]

\* ContextBuilder.getParentSegments (segmentUtils.ts): the same loop
\* without a count of the levels
RECURSIVE ContextBuilderWalkParents(_, _, _)
ContextBuilderWalkParents(currentParentId, allSegments, parents) ==
    IF currentParentId # NULL
    THEN LET parent == findSegment(allSegments, currentParentId)
         IN  IF parent = NoSegment THEN parents
             ELSE ContextBuilderWalkParents(parent.parentId, allSegments,
                                            <<parent>> \o parents)
    ELSE parents

\* the forEach of ContextBuilder.buildContextualInformation: title and
\* content of each parent
RECURSIVE ContextBuilderParentLines(_, _)
ContextBuilderParentLines(parentSegments, index) ==
    IF parentSegments = <<>> THEN <<>>
    ELSE indent(index) \o listMarker \o Head(parentSegments).title
         \o <<":", " ">> \o Head(parentSegments).content \o <<"\n">>
         \o ContextBuilderParentLines(Tail(parentSegments), index + 1)

ContextBuilderBuildContextualInformation(level, parentSegments, originalQuery) ==
    IF level = 0
    THEN originalSearchLabel \o originalQuery \o <<"\"">>
    ELSE trim(originalSearchLabel \o originalQuery \o <<"\"", "\n">>
              \o (IF Len(parentSegments) > 0
                  THEN contextPathLine
                       \o ContextBuilderParentLines(parentSegments, 0)
                  ELSE <<>>))

\* String.prototype.substring(0, end)
substring(s, end) ==
    SubSeq(s, 1, IF end < 0 THEN 0 ELSE IF end > Len(s) THEN Len(s) ELSE end)

\* ContextBuilder.truncateContextIfNeeded; lastIndexOf counts from 0 and
\* is -1 when there is no line break
truncateContextIfNeeded(contextInfo) ==
    IF Len(contextInfo) <= maxContextLength THEN contextInfo
    ELSE LET truncated == substring(contextInfo, maxContextLength - 20)
             hits == {i \in 1..Len(truncated) : truncated[i] = "\n"}
             lastNewline == IF hits = {} THEN -1
                            ELSE (CHOOSE i \in hits : \A j \in hits : i >= j) - 1
         IN  IF lastNewline > 0
             THEN substring(truncated, lastNewline) \o contextTruncatedMarker
             ELSE truncated \o truncatedMarker

\* ---- inputs of the context builder
\* the longest ancestor chain among the known segments
ChainLength == 6

digits == <<"1", "2", "3", "4", "5", "6", "7", "8", "9">>

\* segment i of a chain: a root search produced segment 1, and expanding
\* segment i - 1 produced segment i
chainSegment(i) ==
    createTextSegment(i, <<"t", digits[i]>>, <<"c">>, i - 1,
                      IF i = 1 THEN NULL ELSE i - 1)

\* the segments of the chain, and a segment whose parent is in no list of
\* known segments
ContextSegments ==
    {chainSegment(i) : i \in 1..ChainLength}
        \cup {createTextSegment(20, <<"d">>, <<"c">>, 2, 21)}

\* lists of known segments: the whole chain from the root down, the whole
\* chain from the leaf up, the chain with segment 3 unknown, and nothing
AllSegmentLists ==
    { [i \in 1..ChainLength |-> chainSegment(i)],
      [i \in 1..ChainLength |-> chainSegment(ChainLength + 1 - i)],
      [i \in 1..(ChainLength - 1) |-> chainSegment(IF i < 3 THEN i ELSE i + 1)],
      <<>> }

longText(n) == [i \in 1..n |-> "x"]

\* original queries: a short one, one whose line ends shortly before the
\* budget, and one that is nearly as long as the budget
OriginalQueries == { <<"q">>, longText(1950), longText(1990) }

\* ---- the context builder applied to its inputs
CreateContextualPrompt(segment, allSegments, originalQuery) ==
    LET result == createContextualPrompt(segment, allSegments, originalQuery)
    IN  /\ returned' = [NoReturn EXCEPT
                            !.op = "createContextualPrompt",
                            !.id = segment.id,
                            !.input = <<segment, allSegments, originalQuery>>,
                            !.segs = result.parentSegments,
                            !.text = result.contextualInformation]
        /\ UNCHANGED <<atoms, controller, aborted, history, storedShape,
                       uuidCount, segCount, pendingRequests, requests, calls,
                       mq, stopped, now, location, isLoadingFromUrl, preloads, urlSync, loadMore, walk>>

\* ContextBuilder.buildSegmentContext followed by
\* ContextBuilder.createContextualPrompt
ContextBuilderCreateContextualPrompt(segment, allSegments, originalQuery) ==
    LET parentSegments ==
            ContextBuilderWalkParents(segment.parentId, allSegments, <<>>)
        contextualInformation ==
            ContextBuilderBuildContextualInformation(segment.level, parentSegments,
                                                     originalQuery)
    IN  /\ returned' = [NoReturn EXCEPT
                            !.op = "ContextBuilder.createContextualPrompt",
                            !.id = segment.id,
                            !.input = <<segment, allSegments, originalQuery>>,
                            !.segs = parentSegments,
                            !.text = truncateContextIfNeeded(contextualInformation)]
        /\ UNCHANGED <<atoms, controller, aborted, history, storedShape,
                       uuidCount, segCount, pendingRequests, requests, calls,
                       mq, stopped, now, location, isLoadingFromUrl, preloads, urlSync, loadMore, walk>>

\* AIService.createExpansionPrompt: the instruction about the segment (the
\* fixed instructions after it and the format example are left out)
createExpansionPrompt(segment) ==
    expandOnLabel \o segment.title \o <<"'", " ", "-", " ", "'">>
    \o segment.content \o <<"'", ".">>

\* AIService.createContextualExpansionPrompt; allCachedSegments is what
\* cacheService.getAllCachedSegments() returns
createContextualExpansionPrompt(segment, originalQuery, allCachedSegments) ==
    IF segment.level = 0
    THEN createExpansionPrompt(segment)
    ELSE createContextualPrompt(segment, allCachedSegments, originalQuery).prompt

\* AIService.performExpansion up to the call of requestWithRetry: the
\* content of the user message of the conversation
PerformExpansion(segment, allCachedSegments, originalQuery) ==
    /\ returned' = [NoReturn EXCEPT
                        !.op = "performExpansion",
                        !.id = segment.id,
                        !.input = <<segment, allCachedSegments, originalQuery>>,
                        !.text = createContextualExpansionPrompt(
                                     segment, originalQuery, allCachedSegments)]
    /\ UNCHANGED <<atoms, controller, aborted, history, storedShape,
                   uuidCount, segCount, pendingRequests, requests, calls,
                   mq, stopped, now, location, isLoadingFromUrl, preloads, urlSync, loadMore, walk>>

ContextNext ==
    \/ \E segment \in ContextSegments, allSegments \in AllSegmentLists,
          originalQuery \in { <<"q">>, <<"t", "1">> } :
            PerformExpansion(segment, allSegments, originalQuery)
    \/ \E segment \in ContextSegments, allSegments \in AllSegmentLists,
          originalQuery \in OriginalQueries :
            CreateContextualPrompt(segment, allSegments, originalQuery)
    \/ \E segment \in ContextSegments, allSegments \in AllSegmentLists,
          originalQuery \in OriginalQueries :
            ContextBuilderCreateContextualPrompt(segment, allSegments, originalQuery)

ContextSpec == Init /\ [][ContextNext]_vars

ContextOps == {"createContextualPrompt", "ContextBuilder.createContextualPrompt"}

\* the lines of a text: the pieces between its line breaks
lineBreaks(text) == {i \in 1..Len(text) : text[i] = "\n"} \cup {0, Len(text) + 1}

linesOf(text) ==
    LET breaks == lineBreaks(text)
        nth(k) == CHOOSE b \in breaks : Cardinality({c \in breaks : c < b}) = k
    IN  [k \in 1..(Cardinality(breaks) - 1) |->
            SubSeq(text, nth(k - 1) + 1, nth(k) - 1)]

\* the lines of a rendered context that list an ancestor: indentation
\* followed by the list marker
ancestorLines(text) ==
    LET lines == linesOf(text)
    IN  {k \in 1..Len(lines) :
            \E n \in 0..Len(lines[k]) :
                /\ Len(lines[k]) >= n + 2
                /\ \A i \in 1..n : lines[k][i] = " "
                /\ SubSeq(lines[k], n + 1, n + 2) = listMarker}

\* C23: whatever the length of a segment's ancestor chain, the rendered
\* context path lists at most 4 ancestor titles
C23_ContextDepthBound ==
    returned.op \in ContextOps => Cardinality(ancestorLines(returned.text)) <= 4

\* p is the consecutive parentId chain above segment among allSegments,
\* farthest ancestor first, stopped at a root, at a parentId that no known
\* segment has, or at 4 ancestors
ancestorChain(segment, allSegments, p) ==
    LET known(id) == \E i \in 1..Len(allSegments) : allSegments[i].id = id
        linkAbove(k) == IF k = Len(p) THEN segment.parentId ELSE p[k + 1].parentId
        top == IF p = <<>> THEN segment.parentId ELSE p[1].parentId
    IN  /\ Len(p) <= 4
        /\ \A k \in 1..Len(p) :
            /\ linkAbove(k) # NULL
            /\ p[k].id = linkAbove(k)
            /\ \E i \in 1..Len(allSegments) : allSegments[i] = p[k]
        /\ Len(p) = 4 \/ top = NULL \/ ~known(top)

renderedContext ==
    IF returned.op = "createContextualPrompt"
    THEN buildContextualInformation(returned.input[1].level, returned.segs,
                                    returned.input[3])
    ELSE ContextBuilderBuildContextualInformation(returned.input[1].level,
                                                  returned.segs, returned.input[3])

\* text is a prefix of rendered that ends at a line boundary, followed by a
\* truncation marker
cutAtLineBoundary(text, rendered) ==
    \E b \in lineBreaks(rendered) \ {0} :
        \E marker \in {contextTruncatedMarker, truncatedMarker} :
            text = SubSeq(rendered, 1, b - 1) \o marker

\* C25: the context text the builder returns never exceeds the budget of
\* 2000 characters; a rendered text over the budget is returned as a prefix
\* cut at a line boundary followed by a truncation marker
C25_ContextLengthBound ==
    returned.op \in ContextOps
        => /\ Len(returned.text) <= 2000
           /\ Len(renderedContext) > 2000
                => cutAtLineBoundary(returned.text, renderedContext)

\* sub occurs in text
containsText(text, sub) ==
    \E i \in 1..(Len(text) - Len(sub) + 1) :
        SubSeq(text, i, i + Len(sub) - 1) = sub

\* C26: the directive of every expansion, the expansion of a direct child
\* of the root search included, contains the context line
\* Original search: "<originalQuery>"
C26_ExpansionEmbedsContext ==
    returned.op = "performExpansion"
        => containsText(returned.text,
                        originalSearchLabel \o returned.input[3] \o <<"\"">>)

\* ---- the orchestrator after two root searches
\* the segments of a root search answered with the sample payload, the
\* first of them with id firstId
sampleSegments(firstId) ==
    parseSegmentsFromResponse(<<ItemNoContent, ItemA>>, 0, NULL, firstId)

\* what the root searches "a" and "b", both answered with the sample
\* payload, have left in the atoms, the controller, the log and the
\* counters: executeRequest and performQueryAtom have each saved a record of
\* each search, and no invocation is under way
afterTwoSearches ==
    LET afterA1 == saveQueryResult(<<>>, 1, 0, <<"a">>, sampleSegments(1), NULL, NULL)
        afterA2 == saveQueryResult(afterA1, 2, 0, <<"a">>, sampleSegments(1), NULL, NULL)
        afterB1 == saveQueryResult(afterA2, 3, 0, <<"b">>, sampleSegments(2), NULL, NULL)
        twoSearchesLog ==
            saveQueryResult(afterB1, 4, 0, <<"b">>, sampleSegments(2), NULL, NULL)
    IN
    /\ searchQuery = <<"b">>
    /\ segments = sampleSegments(2)
    /\ isSearching = FALSE
    /\ error = NoError
    /\ searchControllerAtom = NULL
    /\ expandingSegmentId = NULL
    /\ currentSearchId = 4
    /\ currentRequest = NULL
    /\ scIsSearching = FALSE
    /\ aborted = {}
    /\ history = twoSearchesLog
    /\ uuidCount = 4
    /\ segCount = 2
    /\ pendingRequests = {}
    /\ mq = <<>>
    /\ stopped = {}
    /\ now = 0
    /\ location = <<"/">>
    /\ isLoadingFromUrl = FALSE
    /\ storedShape = "list"
    /\ returned = NoReturn
    /\ preloads = NoPreloads
    /\ urlSync = NoUrlSync
    /\ loadMore = NoLoadMore
    /\ walk = NoWalk

\* the state after the two searches, with the finished invocations and
\* their requests forgotten
TwoSearchesInit ==
    /\ afterTwoSearches
    /\ requests = [r \in CallIds |-> NoRequest]
    /\ calls = [p \in CallIds |-> NoCall]

TwoSearchesSpec == TwoSearchesInit /\ [][Next]_vars

\* rec is a record of the expansion of the segment with id sourceSegmentId
\* (of a root search when that is NULL): it names the segment as its
\* source, and every segment in it has the segment as its parent
linkedTo(rec, sourceSegmentId) ==
    /\ rec.sourceSegmentId = sourceSegmentId
    /\ \A j \in 1..Len(rec.segments) : rec.segments[j].parentId = sourceSegmentId

\* the records a step adds to the log
addedRecords == Len(history') - Len(history)

\* C27: every record created by expanding segment s has sourceSegmentId
\* s.id and only segments whose parentId is s.id, every segment produced by
\* a root search has parentId null, and a step that creates records leaves
\* s and every record that existed as they were
C27_ExpansionLinks ==
    [][/\ addedRecords >= 0
       /\ \A i \in 1..Len(history) : history'[i + addedRecords] = history[i]
       /\ \A r \in CallIds :
            ((fetchSettles(r, [kind |-> "ok", list |-> <<ItemNoContent, ItemA>>])
              \/ fetchSettles(r, [kind |-> "ok", list |-> <<>>])
              \/ fetchAborted(r))
             /\ addedRecords > 0)
                => /\ addedRecords = 1
                   /\ linkedTo(history'[1], requests[r].cacheParams.sourceSegmentId)
       /\ \A p \in CallIds :
            (performQueryResume(p) /\ addedRecords > 0)
                => /\ addedRecords = 1
                   /\ linkedTo(history'[1], calls[p].sourceSegment.id)
                   /\ calls[p].sourceSegment # NoSegment
                        => \A i \in 1..Len(segments) :
                              segments[i].id = calls[p].sourceSegment.id
                                => segments[i] = calls[p].sourceSegment
      ]_vars

\* ------------------------------------------------------------ the parser
\* the longest list array handed to the parser
MaxListLen == 3

\* further list entries: an object whose title is blank, a string, and null
ParserItems ==
    {ItemA, ItemNoContent,
     [type |-> "object", title |-> <<" ">>, content |-> <<"x">>],
     [type |-> "string", text |-> <<"s">>],
     [type |-> "null"]}

\* parseSegmentsFromResponse(response, level, parentId) for a response that
\* is JSON with the list array list; the segment ids are fresh. The loop
\* throws a TypeError at a null entry: typeof null is 'object', and
\* item.title is read from it.
ParseSegmentsFromResponse(list, level, parentId) ==
    /\ returned' = IF \E i \in 1..Len(list) : list[i].type = "null"
                   THEN [NoReturn EXCEPT !.op = "parseSegmentsFromResponse",
                                         !.input = <<list, level, parentId>>,
                                         !.threw = TRUE]
                   ELSE [NoReturn EXCEPT !.op = "parseSegmentsFromResponse",
                                         !.input = <<list, level, parentId>>,
                                         !.segs = parseSegmentsFromResponse(
                                                      list, level, parentId, 1)]
    /\ UNCHANGED <<atoms, controller, aborted, history, storedShape,
                   uuidCount, segCount, pendingRequests, requests, calls,
                   mq, stopped, now, location, isLoadingFromUrl, preloads, urlSync, loadMore, walk>>

\* the parser is called for a root search (level 0, no parent) or for the
\* expansion of a segment (here segment 1 of level 0)
ParseNext ==
    \E list \in UNION {[1..n -> ParserItems] : n \in 0..MaxListLen} :
        \/ ParseSegmentsFromResponse(list, 0, NULL)
        \/ ParseSegmentsFromResponse(list, 1, 1)

ParseSpec == Init /\ [][ParseNext]_vars

\* the entry carries a title and a content that are both non-empty
hasTitleAndContent(item) ==
    /\ item.type = "object"
    /\ item.title # <<>>
    /\ item.content # <<>>

\* C28: the parser returns one segment for each list entry that carries a
\* non-empty title and a non-empty content, in list order, and nothing for
\* any other entry; every segment returned has a non-empty title, a
\* non-empty content and the supplied parentId; no entry makes the batch
\* fail
C28_ParserAcceptance ==
    returned.op = "parseSegmentsFromResponse"
        => LET list == returned.input[1]
               parentId == returned.input[3]
               accepted == SelectSeq(list, hasTitleAndContent)
           IN  /\ ~returned.threw
               /\ Len(returned.segs) = Len(accepted)
               /\ \A k \in 1..Len(returned.segs) :
                    /\ returned.segs[k].title = trim(accepted[k].title)
                    /\ returned.segs[k].content = trim(accepted[k].content)
                    /\ returned.segs[k].title # <<>>
                    /\ returned.segs[k].content # <<>>
                    /\ returned.segs[k].parentId = parentId

\* C29: a payload without a list array is a failure that is raised at once
\* and not retried, and a payload whose list yields no accepted entry is a
\* success that returns the empty sequence
C29_NoListIsHardFailure ==
    [][\A r \in CallIds :
        /\ fetchSettles(r, [kind |-> "nolist", list |-> <<>>])
            => /\ requests'[r].status = "failed"
               /\ requests'[r].attempt = requests[r].attempt
        /\ fetchSettles(r, [kind |-> "ok", list |-> <<>>])
            => /\ requests'[r].status = "ok"
               /\ requests'[r].result = <<>>
      ]_vars

\* ---------------------------------------------------- PreloadingService
\* requests the prefetcher may send
MaxPreloads == 2

\* batches the prefetcher may start
MaxBatches == 2

\* what performPreload hands to expandSegment as originalQuery: the data of
\* the element holds no contextSegments, so the second argument is undefined
\* and the parameter takes its default ''. (The third argument, which
\* expandSegment reads as the AbortController, is the original query: no
\* signal reaches fetch, and the abort() of the prefetcher stops nothing.)
preloadOriginalQuery == <<>>

\* a request of the prefetcher's AIService for segment, started by the
\* batch with AbortController abortController; joiners are the segments
\* whose preloads found it pending, in the order they joined
newPreloadRequest(id, segment, abortController) ==
    [id |-> id,
     key |-> createExpansionCacheKey(segment, preloadOriginalQuery),
     segment |-> segment, attempt |-> 0, joiners |-> <<>>,
     abortController |-> abortController]

\* resetStaticTimer without its clearTimeout: the timeout armed before
\* stays pending
resetStaticTimerKeepsOld(state) ==
    [state EXCEPT !.timeouts = {[t EXCEPT !.held = FALSE] : t \in @}
                                 \cup {[remaining |-> STATIC_DELAY_MS,
                                        held |-> TRUE]}]

\* resetStaticTimer: the timeout whose id staticTimer holds is cleared and
\* a new one is armed
resetStaticTimer(state) ==
    [state EXCEPT !.timeouts = {t \in @ : ~t.held}
                                 \cup {[remaining |-> STATIC_DELAY_MS,
                                        held |-> TRUE]}]

\* the ids of the segments with an element in the document
displayedIds == {segments[i].id : i \in 1..Len(segments)}

\* handleScroll: a scroll event of the container reaches the service
HandleScroll ==
    /\ TaskBoundary
    /\ preloads' = [resetStaticTimer(preloads) EXCEPT !.sinceChange = 0]
    /\ UNCHANGED <<atoms, controller, aborted, history, storedShape, uuidCount,
                   segCount, pendingRequests, requests, calls, mq, stopped,
                   now, location, isLoadingFromUrl, returned, urlSync,
                   loadMore, walk>>

\* The callback of the IntersectionObserver with entries that change the
\* set of visible segments: the observed elements are those of the
\* displayed segments, visible are the ones of them now at least 80% in view
IntersectionCallback(visible) ==
    /\ TaskBoundary
    /\ LET visibleSegments == (preloads.visibleSegments \ displayedIds)
                                  \cup visible
       IN  /\ visibleSegments # preloads.visibleSegments
           /\ preloads' = [resetStaticTimer(preloads) EXCEPT
                              !.visibleSegments = visibleSegments,
                              !.sinceChange = 0]
    /\ UNCHANGED <<atoms, controller, aborted, history, storedShape, uuidCount,
                   segCount, pendingRequests, requests, calls, mq, stopped,
                   now, location, isLoadingFromUrl, returned, urlSync,
                   loadMore, walk>>

\* half the quiet period passes without an event
TimePasses ==
    /\ TaskBoundary
    /\ \/ \E t \in preloads.timeouts : t.remaining > 0
       \/ preloads.sinceChange < STATIC_DELAY_MS
    /\ LET elapsed == STATIC_DELAY_MS \div 2
       IN  preloads' =
             [preloads EXCEPT
                !.timeouts = {[t EXCEPT !.remaining =
                                  IF @ > elapsed THEN @ - elapsed ELSE 0] : t \in @},
                !.sinceChange = IF @ + elapsed < STATIC_DELAY_MS
                                THEN @ + elapsed ELSE STATIC_DELAY_MS]
    /\ UNCHANGED <<atoms, controller, aborted, history, storedShape, uuidCount,
                   segCount, pendingRequests, requests, calls, mq, stopped,
                   now, location, isLoadingFromUrl, returned, urlSync,
                   loadMore, walk>>

\* performPreload after expandSegment has resolved for the preloads of ids,
\* in this order: each takes the next access order and calls
\* enforceCacheLimit, which returns at once while the cache holds at most
\* MAX_CACHE_ITEMS promises; otherwise it awaits every promise of the cache,
\* the caller's own among them, which settles only when enforceCacheLimit
\* has returned
performPreloadResolved(state, ids) ==
    [state EXCEPT
       !.accessCounter = @ + Len(ids),
       !.fulfilled = IF Cardinality(state.cache) <= MAX_CACHE_ITEMS
                     THEN @ \cup {[segmentId |-> ids[k],
                                   accessOrder |-> state.accessCounter + k] :
                                     k \in 1..Len(ids)}
                     ELSE @,
       !.blocked = IF Cardinality(state.cache) <= MAX_CACHE_ITEMS
                   THEN @
                   ELSE @ \cup {ids[k] : k \in 1..Len(ids)}]

\* preloadSegment -> performPreload -> expandSegment -> executeWithCache of
\* the prefetcher's AIService, up to the first await, for one visible
\* segment: nothing for a segment that has a cache entry; otherwise the
\* store is asked, then the pending requests, and a request is sent when
\* both miss; the promise is put in the cache. resolving lists the preloads
\* whose expandSegment has resolved from the store.
preloadSegment(state, segment) ==
    LET cacheParams == expansionCacheParams(segment, preloadOriginalQuery)
        key == createExpansionCacheKey(segment, preloadOriginalQuery)
        existingResult == findExistingQuery(history, cacheParams.query,
                                            cacheParams.sourceSegmentId,
                                            cacheParams.parentId)
        mapped == {e \in state.map : e[1] = key}
        cached == [state EXCEPT !.cache = @ \cup {segment.id}]
    IN  IF segment.id \in state.cache THEN state
        ELSE IF existingResult # NoRecord
        THEN [cached EXCEPT !.resolving = Append(@, segment.id)]
        ELSE IF mapped # {}
        THEN [cached EXCEPT !.pending =
                {IF r.id = (CHOOSE e \in mapped : TRUE)[2]
                 THEN [r EXCEPT !.joiners = Append(@, segment)]
                 ELSE r : r \in @}]
        ELSE [cached EXCEPT !.pending =
                               @ \cup {newPreloadRequest(state.issued + 1, segment,
                                                         state.abortController)},
                            !.map = mapSet(@, key, state.issued + 1),
                            !.issued = @ + 1]

\* visibleSegmentIds.map(...) of preloadVisibleSegments: the visible ids
\* in the order of the list; preloadSegment returns for an id without an
\* element
RECURSIVE preloadAll(_, _)
preloadAll(state, shown) ==
    IF shown = <<>> THEN state
    ELSE preloadAll(IF Head(shown).id \in state.visibleSegments
                    THEN preloadSegment(state, Head(shown)) ELSE state,
                    Tail(shown))

\* preloadVisibleSegments: nothing without a visible segment; otherwise
\* the AbortController of the batch before is aborted, a new one is made,
\* and every visible segment is preloaded. The preloads answered by the
\* store go on to their end in the microtasks of the same task.
preloadVisibleSegments(state) ==
    LET abortController == IF state.abortController = NULL THEN 1
                           ELSE state.abortController + 1
        started == [state EXCEPT
                      !.abortedSignals =
                          IF state.abortController = NULL THEN @
                          ELSE @ \cup {state.abortController},
                      !.abortController = abortController,
                      !.resolving = <<>>]
        preloaded == preloadAll(started, segments)
    IN  IF state.visibleSegments = {} THEN state
        ELSE [performPreloadResolved(preloaded, preloaded.resolving)
                 EXCEPT !.resolving = <<>>]

\* A timeout armed by resetStaticTimer is due: its callback runs.
PreloadVisibleSegments ==
    /\ TaskBoundary
    /\ \E t \in preloads.timeouts :
         /\ t.remaining = 0
         /\ LET fired == [preloads EXCEPT !.timeouts = @ \ {t}]
                after == preloadVisibleSegments(fired)
            IN  /\ after.issued <= MaxPreloads
                /\ after.abortController # NULL => after.abortController <= MaxBatches
                /\ preloads' = after
    /\ UNCHANGED <<atoms, controller, aborted, history, storedShape, uuidCount,
                   segCount, pendingRequests, requests, calls, mq, stopped,
                   now, location, isLoadingFromUrl, returned, urlSync,
                   loadMore, walk>>

\* a catch that reports the failure to the user
preloadRejectedSetsError ==
    /\ error' = ERR_RETRIES
    /\ UNCHANGED <<searchQuery, segments, isSearching, searchControllerAtom,
                   expandingSegmentId, currentSearchId, controller>>

\* the catch of preloadVisibleSegments with an error that is an AbortError
\* or cause for one more preload, and the console.warn that follows: the
\* atoms of the orchestrator and its controller are not touched
preloadRejected ==
    UNCHANGED <<atoms, controller>>

\* One call of the AI boundary for request r of the prefetcher answers.
\* requestWithRetry and executeRequest act as for a click: a parseable
\* payload is saved to the store, anything else is retried while
\* attempt < 2. The reactions that follow touch the prefetcher only and are
\* part of the step: the creator's finally deletes the key; after a success
\* the preloads of the creator and of the joiners go on in performPreload;
\* after a failure preloadSegment deletes the creator's cache entry, and
\* every joiner deletes the key, sends a request of its own and records it.
PreloadSettles(r, resp) ==
    /\ TaskBoundary
    /\ r \in preloads.pending
    /\ LET segs == parseSegmentsFromResponse(resp.list, r.segment.level + 1,
                                             r.segment.id, segCount + 1)
           cacheParams == expansionCacheParams(r.segment, preloadOriginalQuery)
           settled == [preloads EXCEPT !.pending = @ \ {r},
                                       !.map = mapDelete(@, r.key)]
       IN  IF resp.kind = "ok"
           THEN /\ history' = saveQueryResult(history, uuidCount + 1, now,
                                              cacheParams.query, segs,
                                              cacheParams.parentId,
                                              cacheParams.sourceSegmentId)
                /\ uuidCount' = uuidCount + 1
                /\ segCount' = segCount + Len(segs)
                /\ preloads' = performPreloadResolved(settled,
                                   <<r.segment.id>> \o
                                   [k \in 1..Len(r.joiners) |-> r.joiners[k].id])
                /\ UNCHANGED <<atoms, controller>>
           ELSE IF retryAllowed(r.attempt)
           THEN /\ preloads' = [preloads EXCEPT !.pending =
                                   (@ \ {r}) \cup {[r EXCEPT !.attempt = @ + 1]}]
                /\ UNCHANGED <<history, uuidCount, segCount, atoms, controller>>
           ELSE /\ preloads' =
                     [preloads EXCEPT
                        !.pending = (@ \ {r}) \cup
                            {newPreloadRequest(preloads.issued + k, r.joiners[k],
                                               r.abortController) :
                                k \in 1..Len(r.joiners)},
                        !.map = IF r.joiners = <<>> THEN mapDelete(@, r.key)
                                ELSE mapSet(@, r.key,
                                            preloads.issued + Len(r.joiners)),
                        !.issued = @ + Len(r.joiners),
                        !.cache = @ \ {r.segment.id}]
                /\ preloadRejected
                /\ UNCHANGED <<history, uuidCount, segCount>>
    /\ UNCHANGED <<aborted, storedShape, pendingRequests,
                   requests, calls, mq, stopped, now, location,
                   isLoadingFromUrl, returned, urlSync,
                   loadMore, walk>>

\* the prefetcher: the events that reach it, its timer and the answers to
\* its requests
PreloadingNext ==
    \/ HandleScroll
    \/ \E visible \in SUBSET displayedIds : IntersectionCallback(visible)
    \/ TimePasses
    \/ PreloadVisibleSegments
    \/ \E r \in preloads.pending, resp \in Responses : PreloadSettles(r, resp)

\* the prefetcher at work next to a user who, after two root searches,
\* only clicks segments
PrefetchNext ==
    \/ SegmentExpand
    \/ \E r \in CallIds, resp \in Responses : fetchSettles(r, resp)
    \/ \E r \in CallIds : fetchAborted(r)
    \/ \E p \in CallIds : performQueryResume(p)
    \/ PreloadingNext

PrefetchSpec == TwoSearchesInit /\ [][PrefetchNext]_vars

\* C30: when the prefetcher has started or completed an expansion of a
\* segment and the segment is then clicked, the click sends no request of
\* its own
C30_PrefetchAndClickCollapse ==
    [][\A i \in 1..Len(segments) :
          (/\ performQueryAtom(segments[i].title, segments[i], currentSearchId)
           /\ segments[i].id \in preloads.cache)
              => UNCHANGED requests]_vars

\* what the root search "a", answered with three entries alike, has left
\* behind: executeRequest and performQueryAtom have each saved a record, the
\* three segments are displayed, and the finished invocation and its
\* request are forgotten
afterAlikeSearch ==
    LET alikeSegments ==
            parseSegmentsFromResponse(<<ItemA, ItemA, ItemA>>, 0, NULL, 1)
    IN
    /\ searchQuery = <<"a">>
    /\ segments = alikeSegments
    /\ isSearching = FALSE
    /\ error = NoError
    /\ searchControllerAtom = NULL
    /\ expandingSegmentId = NULL
    /\ currentSearchId = 2
    /\ currentRequest = NULL
    /\ scIsSearching = FALSE
    /\ aborted = {}
    /\ history = saveQueryResult(
                    saveQueryResult(<<>>, 1, 0, <<"a">>, alikeSegments, NULL, NULL),
                    2, 0, <<"a">>, alikeSegments, NULL, NULL)
    /\ uuidCount = 2
    /\ segCount = 3
    /\ pendingRequests = {}
    /\ requests = [r \in CallIds |-> NoRequest]
    /\ calls = [p \in CallIds |-> NoCall]
    /\ mq = <<>>
    /\ stopped = {}
    /\ now = 0
    /\ location = <<"/">>
    /\ isLoadingFromUrl = FALSE
    /\ storedShape = "list"
    /\ returned = NoReturn
    /\ urlSync = NoUrlSync
    /\ loadMore = NoLoadMore
    /\ walk = NoWalk

\* the prefetcher has seen no event
PreloadingInit == afterAlikeSearch /\ preloads = NoPreloads

\* the prefetcher alone, the user only scrolling
PreloadingSpec == PreloadingInit /\ [][PreloadingNext]_vars

\* C31: a step in which a prefetch fails for good, or in which a prefetch
\* of an aborted batch is answered, or in which a batch is aborted, leaves
\* the error, the segment list, the active record id and the in-flight flag
\* of the orchestrator as they were
C31_PrefetchFailureIsSilent ==
    [][(\/ \E r \in preloads.pending, resp \in Responses :
             /\ PreloadSettles(r, resp)
             /\ \/ resp.kind # "ok"
                \/ r.abortController \in preloads.abortedSignals
        \/ /\ PreloadVisibleSegments
           /\ preloads'.abortedSignals # preloads.abortedSignals)
          => UNCHANGED <<error, segments, currentSearchId, isSearching>>]_vars

\* the only request of the prefetcher was pending when its batch was
\* aborted, and it has failed for good
C31_Witness ==
    /\ preloads.issued = 1
    /\ preloads.abortedSignals # {}
    /\ preloads.pending = {}
    /\ preloads.cache = {}

\* C32: a batch starts only STATIC_DELAY_MS after the last scroll or change
\* of visibility; never more than one timeout is pending; and the start of
\* a batch aborts the AbortController of the batch before
C32_QuietPeriod ==
    /\ [](Cardinality(preloads.timeouts) <= 1)
    /\ [][preloads'.abortController # preloads.abortController
            => /\ preloads.sinceChange >= STATIC_DELAY_MS
               /\ preloads.abortController # NULL
                    => preloads.abortController \in preloads'.abortedSignals
      ]_vars

\* a second batch has started, after a scroll had cleared a pending timeout
C32_Witness ==
    /\ preloads.abortController = 2
    /\ preloads.abortedSignals = {1}
    /\ preloads.timeouts = {}

\* C33: between tasks the in-flight flag is true exactly while a request
\* issued by the orchestrator is pending with a signal that is not aborted,
\* and the expanding-segment id is set only while an expansion of that
\* segment awaits its request
C33_LoadingStateAccurate ==
    TaskBoundary =>
        /\ isSearching <=> \E r \in CallIds : /\ requests[r].status = "pending"
                                              /\ r \notin aborted
        /\ expandingSegmentId # NULL
              => \E p \in CallIds : /\ calls[p].pc = "await"
                                    /\ calls[p].sourceSegment # NoSegment
                                    /\ calls[p].sourceSegment.id = expandingSegmentId

\* C34: in the AIService of the prefetcher, whose callers share requests
\* and are never aborted, at most one request per cache key is in flight,
\* pendingRequests maps the key of every request in flight to that
\* request, and it holds no entry for a key without a request in flight
C34_PendingRequestTable ==
    /\ \A r1, r2 \in preloads.pending : r1.key = r2.key => r1.id = r2.id
    /\ \A r \in preloads.pending : <<r.key, r.id>> \in preloads.map
    /\ \A e \in preloads.map : \E r \in preloads.pending : r.key = e[1]

\* the prefetcher once the preloads of ten segments displayed earlier (ids
\* 101 to 110) have been fulfilled, its timer idle
FullCacheInit ==
    /\ afterAlikeSearch
    /\ preloads = [NoPreloads EXCEPT
                      !.cache = {100 + k : k \in 1..MAX_CACHE_ITEMS},
                      !.fulfilled = {[segmentId |-> 100 + k, accessOrder |-> k] :
                                        k \in 1..MAX_CACHE_ITEMS},
                      !.accessCounter = MAX_CACHE_ITEMS]

\* every request of the prefetcher is answered in the end
CacheLimitSpec ==
    /\ FullCacheInit
    /\ [][PreloadingNext]_vars
    /\ WF_vars(\E r \in preloads.pending, resp \in Responses :
                   PreloadSettles(r, resp))

\* C35: every preload that has started settles (its promise is fulfilled,
\* or rejected and taken out of the cache), and whenever no request of the
\* prefetcher is in flight the cache holds at most MAX_CACHE_ITEMS promises
C35_PrefetchSettlesCacheBounded ==
    /\ \A id \in 1..3 :
          (id \in preloads.cache)
             ~> (\/ id \notin preloads.cache
                 \/ \E f \in preloads.fulfilled : f.segmentId = id)
    /\ [](preloads.pending = {}
            => Cardinality(preloads.cache) <= MAX_CACHE_ITEMS)

\* C36: when the browser goes to a path, the query text, the segment list
\* and the active record id become those of the record the path names; for
\* a path that names no id, or an id without a record, nothing throws, no
\* error is set, and the view is the empty one: no segments and no active
\* record
C36_UrlLoad ==
    [][\A pathname \in BrowserPaths :
          LoadFromUrl(pathname) =>
              LET queryId == parseUUIDUrl(pathname)
                  rec == IF queryId = NoQueryId THEN NoRecord
                         ELSE getQueryById(history, uuidNumber(queryId))
              IN  IF rec # NoRecord
                  THEN /\ searchQuery' = rec.query
                       /\ segments' = rec.segments
                       /\ currentSearchId' = rec.id
                  ELSE /\ segments' = <<>>
                       /\ currentSearchId' = NULL
                       /\ error' = NoError
                       /\ ~returned'.threw]_vars

\* --------------------------------------------- useUrlLoader: the effects
\* the dependencies of the effects of useUrlLoader in the current render
currentDeps ==
    [currentQueryId |-> currentSearchId, length |-> Len(segments),
     pathname |-> location]

\* The effect that updates the URL, run while isLoadingFromUrl.current is
\* loading: its cleanup has cleared the timeout of the run before; it
\* returns at once while loading, and otherwise arms a timeout whose
\* callback sees the segments, the active record id and the pathname of
\* this render
updateEffect(loading) ==
    IF loading THEN NoUrlSync.navigationTimeout
    ELSE [armed |-> TRUE, nonEmpty |-> Len(segments) > 0, currentQueryId |-> currentSearchId,
          pathname |-> location]

\* The effects that run after a render in which the pathname, the active
\* record id or the length of the segment list has changed. After a change
\* of the pathname: the effect of the hook calls loadFromUrl unless the
\* pathname is lastProgrammaticUrl.current, which it then forgets; the
\* effect that updates the URL runs; and the effect of AIExpandableSearch
\* on [queryId, loadFromUrl] calls loadFromUrl, whatever the navigation
\* was. Otherwise only the effect that updates the URL runs.
RunEffects ==
    /\ urlSync.deps # currentDeps
    /\ IF location # urlSync.deps.pathname
       THEN LET own == urlSync.lastProgrammaticUrl = location
            IN  /\ loadFromUrl(location)
                /\ urlSync' =
                     [navigationTimeout |->
                          updateEffect(IF own THEN isLoadingFromUrl ELSE TRUE),
                      lastProgrammaticUrl |->
                          IF own THEN <<>> ELSE urlSync.lastProgrammaticUrl,
                      deps |-> currentDeps]
                /\ UNCHANGED location
       ELSE /\ urlSync' = [urlSync EXCEPT
                              !.navigationTimeout = updateEffect(isLoadingFromUrl),
                              !.deps = currentDeps]
            /\ UNCHANGED <<atoms, controller, aborted, history, storedShape,
                           uuidCount, segCount, pendingRequests, requests,
                           calls, mq, stopped, now, location,
                           isLoadingFromUrl, returned, preloads, loadMore, walk>>

\* the navigation timeout fires: navigate(newUrl) when segments are shown,
\* a record is active and the pathname of the render is another one
NavigationTimeout ==
    /\ urlSync.navigationTimeout.armed
    /\ LET seen == urlSync.navigationTimeout
           newUrl == buildNavigationUrl(uuidv4(seen.currentQueryId))
       IN  IF seen.nonEmpty /\ seen.currentQueryId # NULL /\ seen.pathname # newUrl
           THEN /\ location' = newUrl
                /\ urlSync' = [urlSync EXCEPT !.navigationTimeout = NoUrlSync.navigationTimeout,
                                              !.lastProgrammaticUrl = newUrl]
           ELSE /\ UNCHANGED location
                /\ urlSync' = [urlSync EXCEPT !.navigationTimeout = NoUrlSync.navigationTimeout]
    /\ UNCHANGED <<atoms, controller, aborted, history, storedShape, uuidCount,
                   segCount, pendingRequests, requests, calls, mq, stopped,
                   now, isLoadingFromUrl, returned, preloads, loadMore, walk>>

\* the user goes back or forward, or opens a link, to pathname
BrowserNavigates(pathname) ==
    /\ pathname # location
    /\ location' = pathname
    /\ UNCHANGED <<atoms, controller, aborted, history, storedShape, uuidCount,
                   segCount, pendingRequests, requests, calls, mq, stopped,
                   now, isLoadingFromUrl, returned, preloads, urlSync,
                   loadMore, walk>>

\* the user runs a query again that the store holds
RunStoredQuery(query) ==
    /\ findExistingQuery(history, query, NULL, NULL) # NoRecord
    /\ performQueryAtom(query, NoSegment, NULL)

\* records are saved, stored queries are run again, the browser navigates;
\* the effects run before the next event is handled
UrlSyncNext ==
    \/ RunEffects
    \/ urlSync.deps = currentDeps /\ uuidCount < MaxSaves /\ SaveRoot
    \/ \E query \in RootQueries :
          urlSync.deps = currentDeps /\ RunStoredQuery(query)
    \/ \E pathname \in BrowserPaths :
          urlSync.deps = currentDeps /\ BrowserNavigates(pathname)
    \/ urlSync.deps = currentDeps /\ NavigationTimeout
    \/ urlSync.deps = currentDeps /\ LoadingFlagReset

UrlSyncSpec == Init /\ [][UrlSyncNext]_vars

\* C37: the timeout navigates only to the path of the active record id and
\* only while segments are shown; the effects that follow a navigation of
\* the hook itself do not load state from the URL; and once nothing is
\* pending (no effect, no timeout, the loading flag down) with segments
\* shown and a record active, the pathname is "/q/" and the id of that
\* record
C37_UrlSync ==
    /\ [][/\ (NavigationTimeout /\ location' # location)
               => /\ segments # <<>>
                  /\ currentSearchId # NULL
                  /\ location' = buildNavigationUrl(uuidv4(currentSearchId))
          /\ (/\ RunEffects
              /\ location # urlSync.deps.pathname
              /\ urlSync.lastProgrammaticUrl = location)
               => UNCHANGED <<searchQuery, segments, currentSearchId,
                              isLoadingFromUrl, returned>>]_vars
    /\ []((/\ urlSync.deps = currentDeps
           /\ ~urlSync.navigationTimeout.armed
           /\ ~isLoadingFromUrl
           /\ segments # <<>>
           /\ currentSearchId # NULL)
             => location = buildNavigationUrl(uuidv4(currentSearchId)))

\* ------------------------------------------------- loadMoreSegmentsAtom
\* load-more requests the user may start
MaxLoads == 2

\* store.maxSegmentsAtom
maxSegments == 20

\* loadMoreSegmentsAtom up to its await: nothing while a load is under
\* way, no more segments are to be had or the query is empty; at the
\* maximum the has-more flag is dropped; otherwise the flag is raised, a new
\* AbortController (numbered below zero) is put in searchControllerAtom and
\* extendMoreSegments is called with the query and the segments of now
LoadMoreSegments ==
    /\ TaskBoundary
    /\ ~loadMore.isLoadingMore
    /\ loadMore.hasMoreSegments
    /\ searchQuery # <<>>
    /\ IF Len(segments) >= maxSegments
       THEN /\ loadMore' = [loadMore EXCEPT !.hasMoreSegments = FALSE]
            /\ UNCHANGED searchControllerAtom
       ELSE /\ loadMore.issued < MaxLoads
            /\ loadMore' = [loadMore EXCEPT
                              !.isLoadingMore = TRUE,
                              !.issued = @ + 1,
                              !.pending = @ \cup {[id |-> loadMore.issued + 1,
                                                   searchQuery |-> searchQuery,
                                                   currentSegments |-> segments]}]
            /\ searchControllerAtom' = 0 - (loadMore.issued + 1)
    /\ UNCHANGED <<searchQuery, segments, isSearching, error, expandingSegmentId,
                   currentSearchId, controller, aborted, history, storedShape,
                   uuidCount, segCount, pendingRequests, requests, calls, mq,
                   stopped, now, location, isLoadingFromUrl, returned, preloads,
                   urlSync, walk>>

\* aiService.extendMoreSegments of request r settles, and
\* loadMoreSegmentsAtom goes on: new segments are appended to the segments
\* it started with, an empty answer drops the has-more flag, a failure sets
\* the error; the flag and searchControllerAtom are cleared in every case
ExtendMoreSettles(r, resp) ==
    /\ TaskBoundary
    /\ r \in loadMore.pending
    /\ LET newSegments == parseSegmentsFromResponse(resp.list, 0, NULL, segCount + 1)
       IN  /\ segCount' = segCount + Len(newSegments)
           /\ segments' = IF resp.kind = "ok" /\ newSegments # <<>>
                          THEN r.currentSegments \o newSegments ELSE segments
           /\ error' = IF resp.kind = "ok" THEN error ELSE ERR_RETRIES
           /\ loadMore' = [loadMore EXCEPT
                             !.isLoadingMore = FALSE,
                             !.hasMoreSegments =
                                 IF resp.kind = "ok" /\ newSegments = <<>>
                                 THEN FALSE ELSE @,
                             !.pending = @ \ {r}]
    /\ searchControllerAtom' = NULL
    /\ UNCHANGED <<searchQuery, isSearching, expandingSegmentId, currentSearchId,
                   controller, aborted, history, storedShape, uuidCount,
                   pendingRequests, requests, calls, mq, stopped, now, location,
                   isLoadingFromUrl, returned, preloads, urlSync, walk>>

\* performQueryAtom of the file with loadMoreSegmentsAtom, for a root query
\* the store holds: the record is adopted and the flags of the list
\* extension are reset
StoredQueryShown(query) ==
    /\ TaskBoundary
    /\ findExistingQuery(history, query, NULL, NULL) # NoRecord
    /\ reuseExistingQuery(findExistingQuery(history, query, NULL, NULL))
    /\ loadMore' = [loadMore EXCEPT !.isLoadingMore = FALSE,
                                    !.hasMoreSegments = TRUE]
    /\ UNCHANGED <<searchControllerAtom, controller, aborted, history,
                   storedShape, uuidCount, segCount, pendingRequests, requests,
                   calls, mq, stopped, now, location, isLoadingFromUrl,
                   returned, preloads, urlSync, walk>>

\* cancelSearchAtom of the file with loadMoreSegmentsAtom: cancelSearch of
\* the controller, which knows nothing of the AbortController of a load,
\* and the flags are dropped
CancelSearchDropsLoadingMore ==
    /\ TaskBoundary
    /\ aborted' = cancelSearchAborted
    /\ currentRequest' = NULL
    /\ scIsSearching' = IF currentRequest # NULL THEN FALSE ELSE scIsSearching
    /\ isSearching' = FALSE
    /\ error' = NoError
    /\ searchControllerAtom' = NULL
    /\ expandingSegmentId' = NULL
    /\ loadMore' = [loadMore EXCEPT !.isLoadingMore = FALSE]
    /\ UNCHANGED <<searchQuery, segments, currentSearchId, history, storedShape,
                   uuidCount, segCount, pendingRequests, requests, calls, mq,
                   stopped, now, location, isLoadingFromUrl, returned, preloads,
                   urlSync, walk>>

\* after two root searches the user scrolls to the end of the list, runs
\* stored queries again and presses stop
LoadMoreNext ==
    \/ LoadMoreSegments
    \/ \E r \in loadMore.pending, resp \in Responses : ExtendMoreSettles(r, resp)
    \/ \E query \in RootQueries : StoredQueryShown(query)
    \/ CancelSearchDropsLoadingMore

LoadMoreSpec == TwoSearchesInit /\ [][LoadMoreNext]_vars

\* C38: at most one load-more request is pending, and one is sent only
\* while none is under way, more segments are to be had and the query is
\* not empty; the loading-more flag is down after every settlement; the
\* list never holds more than maxSegments segments; and new segments are
\* appended to the list that is current when the request settles
C38_LoadMore ==
    /\ [](Cardinality(loadMore.pending) <= 1)
    /\ [](Len(segments) <= maxSegments)
    /\ [][/\ loadMore'.issued # loadMore.issued
               => /\ loadMore.pending = {}
                  /\ loadMore.hasMoreSegments
                  /\ searchQuery # <<>>
          /\ \A r \in loadMore.pending, resp \in Responses :
                ExtendMoreSettles(r, resp)
                   => /\ ~loadMore'.isLoadingMore
                      /\ \E newSegments \in {<<>>} \cup
                             {parseSegmentsFromResponse(resp.list, 0, NULL,
                                                        segCount + 1)} :
                            segments' = segments \o newSegments]_vars

\* C39: whenever no request is in flight and no caller awaits one, if the
\* active record id is set and the store holds a record with that id, the
\* segment list and the query text are those of the record
C39_StateMatchesRecord ==
    (/\ TaskBoundary
     /\ \A r \in CallIds : requests[r].status # "pending"
     /\ \A p \in CallIds : calls[p].pc # "await"
     /\ currentSearchId # NULL
     /\ getQueryById(history, currentSearchId) # NoRecord)
        => /\ segments = getQueryById(history, currentSearchId).segments
           /\ searchQuery = getQueryById(history, currentSearchId).query

\* ------------------------------------- getParentSegments, step by step
\* ancestors a walk records
MaxParents == 8

\* a segment that is its own parent, and two that are each other's parent
CyclicSegments ==
    { createTextSegment(30, <<"s">>, <<"c">>, 1, 30),
      createTextSegment(31, <<"u">>, <<"c">>, 1, 32),
      createTextSegment(32, <<"v">>, <<"c">>, 2, 31) }

\* the known segments of a walk: those of the context builder, and a list
\* with the chain and the segments whose parentId links form cycles
WalkSegmentLists ==
    AllSegmentLists \cup
        { <<chainSegment(1), chainSegment(2),
            createTextSegment(30, <<"s">>, <<"c">>, 1, 30),
            createTextSegment(31, <<"u">>, <<"c">>, 1, 32),
            createTextSegment(32, <<"v">>, <<"c">>, 2, 31)>> }

WalkFunctions == {"getParentSegments", "ContextBuilder.getParentSegments"}

\* the declarations before the loop of either getParentSegments
WalkCall(fn, segment, allSegments) ==
    /\ walk.pc # "while"
    /\ walk' = [fn |-> fn, pc |-> "while", currentParentId |-> segment.parentId,
                levelsTraversed |-> 0, parents |-> <<>>,
                allSegments |-> allSegments]
    /\ UNCHANGED <<atoms, controller, aborted, history, storedShape,
                   uuidCount, segCount, pendingRequests, requests, calls,
                   mq, stopped, now, location, isLoadingFromUrl, returned,
                   preloads, urlSync, loadMore>>

\* one test of the loop condition and, if it holds, one run of the body:
\* getParentSegments of contextBuilder.ts counts the levels up to
\* CONTEXT_LEVEL_LIMIT, that of the ContextBuilder class has no count.
\* parents records the MaxParents ancestors found first; the loop goes on
\* whether or not a further one is recorded
WalkStep ==
    /\ walk.pc = "while"
    /\ LET parent == findSegment(walk.allSegments, walk.currentParentId)
           counted == walk.fn = "getParentSegments"
       IN  IF /\ walk.currentParentId # NULL
              /\ counted => walk.levelsTraversed < CONTEXT_LEVEL_LIMIT
              /\ parent # NoSegment
           THEN walk' = [walk EXCEPT
                           !.parents = IF Len(@) < MaxParents
                                       THEN <<parent>> \o @ ELSE @,
                           !.currentParentId = parent.parentId,
                           !.levelsTraversed = IF counted THEN @ + 1 ELSE @]
           ELSE walk' = [walk EXCEPT !.pc = "returned"]
    /\ UNCHANGED <<atoms, controller, aborted, history, storedShape,
                   uuidCount, segCount, pendingRequests, requests, calls,
                   mq, stopped, now, location, isLoadingFromUrl, returned,
                   preloads, urlSync, loadMore>>

WalkNext ==
    \/ \E fn \in WalkFunctions, segment \in ContextSegments \cup CyclicSegments,
          allSegments \in WalkSegmentLists : WalkCall(fn, segment, allSegments)
    \/ WalkStep

\* the loop goes on as long as it can
WalkSpec == Init /\ [][WalkNext]_vars /\ WF_vars(WalkStep)

\* C40: every call of either getParentSegments returns, whatever the
\* segment and the known segments, cycles of parentId links included
C40_AncestorWalkTerminates ==
    (walk.pc = "while") ~> (walk.pc = "returned")

====
